---------------------------- MODULE Spec2Model ----------------------------
(***************************************************************************)
(* TouchGrass contract suite: TouchGrassCore (friendship attestation,      *)
(* geofenced events, memory finalisation, minting through the NFT          *)
(* contract) and TouchGrassNFT (memory tokens).                            *)
(*                                                                         *)
(* A transaction that reverts leaves the chain unchanged, so every         *)
(* external function is modelled by                                        *)
(*   - a Result operator: the chain of require checks in source order,     *)
(*     giving the revert message of the first failing check or "ok";       *)
(*   - an action, enabled exactly when the Result is "ok", that performs   *)
(*     all of the function's storage writes.                               *)
(* Accounts are externally owned (the signers of the test-suite).          *)
(* Fields that are written and never read by contract code (attestedAt,    *)
(* createdAt, proof timestamp, event id copy, location and token URI       *)
(* strings) are not part of the state. Byte strings are modelled by        *)
(* strings, the empty byte string by "".                                   *)
(***************************************************************************)
EXTENDS Integers, Sequences, FiniteSets, TLC

\* ------------------------------------------------------------- bounds
MaxEvents == 1      \* event ids handed out by createEvent
MaxTokens == 3      \* token ids handed out by the NFT contract
MaxTicks  == 2      \* number of times the block timestamp advances
MaxInvite == 1      \* length of the invite lists the actions draw
MaxFunds  == 3      \* largest balance the paymaster is funded to, in finney
MaxCap    == 2      \* largest maxSponsorshipPerUser the owner sets, in finney
MaxSrvTicks == 2    \* hours the backend is followed for after it started
MaxInteractions == 16  \* largest interactionCount the friendship levels are drawn with

\* --------------------------------------------------- program constants
ACTION_COOLDOWN       == 60     \* 1 minutes
ONE_HOUR              == 3600   \* 1 hours
MAX_FRIENDS_PER_EVENT == 6
MIN_FRIENDS_PER_EVENT == 1
MAX_RADIUS            == 1000
METERS_PER_DEGREE     == 111000
COORD_SCALE           == 1000000
MIN_ATTENDEES         == 2
INITIAL_MAX_SPONSORSHIP == 1    \* 0.001 ether, in finney

\* ------------------------------------------------------------ addresses
Zero     == "0x0"
Owner    == "owner"            \* deployer of both contracts
CoreAddr == "core"             \* address of the TouchGrassCore contract
NFTAddr  == "nft"              \* address of the TouchGrassNFT contract
Users    == {"u1", "u2", "u3"}
Crew     == {"u1", "u2"}       \* the users who send the event and token transactions
Stranger == "u3"               \* there, a user who is only named as an argument
Accounts == Users \cup {Owner}
Addrs    == Accounts \cup {Zero}

EventIds == 1 .. MaxEvents
TokenIds == 1 .. MaxTokens

VARIABLES
    now,              \* block.timestamp
    \* TouchGrassCore storage
    friendships,      \* [Addrs -> [Addrs -> FriendshipAttestation]]
    lastActionTime,   \* [Addrs -> timestamp]
    eventIds,         \* Counters.Counter _eventIds
    events,           \* [EventIds -> GrassEvent]
    locationProofs,   \* [EventIds -> [Addrs -> LocationProof]]
    eventAttendees,   \* [EventIds -> Seq(Addrs)]
    hasAttended,      \* [EventIds -> [Addrs -> BOOLEAN]]
    userEvents,       \* [Addrs -> Seq(EventIds)]
    userProfiles,     \* [Addrs -> [eventsAttended, eventsCreated]]
    nftContract,      \* address of the NFT contract, Zero until set
    trustedGPSOracle, \* address set by the constructor and setTrustedGPSOracle
    \* TouchGrassNFT storage
    coreContract,     \* address allowed to mint, Zero until set
    tokenIds,         \* Counters.Counter _tokenIds
    tokenOwner,       \* [TokenIds -> Addrs], ERC721 _owners
    memoryNFTs,       \* [TokenIds -> MemoryNFT]
    eventToUserToken, \* [EventIds -> [Addrs -> token id or 0]]
    \* history variables (not storage): what has happened, recorded apart from
    \* the storage the contracts keep about it
    everAttested,     \* pairs <<a, b>>: attestFriend(b) sent by a has succeeded
    liveAttested,     \* ... and a has not called removeFriend(b) since
    lastCall,         \* [Addrs -> time of the sender's last successful rate-limited call]
    verified,         \* pairs <<e, u>>: verifyLocationSimple(e, ..) sent by u has succeeded
    lastFinal,        \* [EventIds -> sender and hash of the last successful finalizeMemory]
    mintedTo,         \* [TokenIds -> Addrs], the account each token was minted to
    \* TouchGrassPaymaster storage; amounts of wei are counted in finney (10^15 wei)
    pmCoreContract,   \* constructor argument _coreContract
    pmNftContract,    \* constructor argument _nftContract
    hasReceivedSponsorship,  \* [Addrs -> BOOLEAN]
    userSponsoredGas,        \* [Addrs -> amount]
    maxSponsorshipPerUser,
    totalSponsored,
    pmBalance,        \* address(this).balance of the paymaster
    \* history variable
    sponsoredUnder,   \* [Addrs -> maxSponsorshipPerUser in force when the user was
                      \*  sponsored, NoCall if never]
    paused,           \* the created events pauseEvent was called for and that
                      \* debugSetEventActive has not set active again since
    \* the backend process (Express router)
    isLocal,          \* IS_LOCAL, read from the environment when the module loads
    srvClock,         \* Date.now() / 1000 of the server
    minScheduledTime, \* the bound of the scheduledTime validator of /events/prepare
    lastRequest,      \* the request handled last
    lastResponse,     \* and the response it got
    sentTx            \* the keys the backend signed and sent a transaction with

timeVars   == <<now>>
friendVars == <<friendships, everAttested, liveAttested>>
rateVars   == <<lastActionTime, lastCall>>
eventVars  == <<eventIds, events, userEvents, lastFinal>>
attendVars == <<locationProofs, eventAttendees, hasAttended, verified>>
nftVars    == <<coreContract, tokenIds, tokenOwner, memoryNFTs, eventToUserToken, mintedTo>>
payVars    == <<pmCoreContract, pmNftContract, hasReceivedSponsorship, userSponsoredGas,
               maxSponsorshipPerUser, totalSponsored, pmBalance, sponsoredUnder>>

vars == <<now, friendships, lastActionTime, eventIds, events, locationProofs,
          eventAttendees, hasAttended, userEvents, userProfiles, nftContract,
          coreContract, tokenIds, tokenOwner, memoryNFTs, eventToUserToken,
          everAttested, liveAttested, lastCall, verified, lastFinal, mintedTo,
          pmCoreContract, pmNftContract, hasReceivedSponsorship, userSponsoredGas,
          maxSponsorshipPerUser, totalSponsored, pmBalance, sponsoredUnder, paused,
          trustedGPSOracle, isLocal, srvClock, minScheduledTime, lastRequest,
          lastResponse, sentTx>>

\* the state of the chain, which the backend only reads
chainVars == <<now, friendships, lastActionTime, eventIds, events, locationProofs,
               eventAttendees, hasAttended, userEvents, userProfiles, nftContract,
               coreContract, tokenIds, tokenOwner, memoryNFTs, eventToUserToken,
               everAttested, liveAttested, lastCall, verified, lastFinal, mintedTo,
               pmCoreContract, pmNftContract, hasReceivedSponsorship, userSponsoredGas,
               maxSponsorshipPerUser, totalSponsored, pmBalance, sponsoredUnder, paused,
               trustedGPSOracle>>
backendVars == <<isLocal, srvClock, minScheduledTime, lastRequest, lastResponse, sentTx>>

\* ------------------------------------------------------ data structures
\* the zero values Solidity gives to unwritten mapping slots
NoFriendship == [friend |-> Zero, isMutual |-> FALSE, interactionCount |-> 0]
NoEvent      == [creator |-> Zero, scheduledTime |-> 0, centerLat |-> 0, centerLng |-> 0,
                 radiusMeters |-> 0, isActive |-> FALSE, name |-> "", ipfsHash |-> "",
                 invitedFriends |-> <<>>]
NoProof      == [user |-> Zero, lat |-> 0, lng |-> 0, signature |-> ""]
NoProfile    == [eventsAttended |-> 0, eventsCreated |-> 0]
NoCall       == 0 - 1
NoFinal      == [sender |-> Zero, hash |-> ""]
NoMemory     == [eventId |-> 0, crewMembers |-> <<>>, baseIPFSHash |-> "",
                 friendshipLevel |-> 0, isPublic |-> FALSE]

\* events[_eventId] for any uint256 id: ids never handed out read as the zero struct
eventAt(e)     == IF e \in EventIds THEN events[e] ELSE NoEvent
attendeesAt(e) == IF e \in EventIds THEN eventAttendees[e] ELSE <<>>
attendedAt(e, a) == IF e \in EventIds THEN hasAttended[e][a] ELSE FALSE
proofAt(e, a)  == IF e \in EventIds THEN locationProofs[e][a] ELSE NoProof
tokenAt(e, a)  == IF e \in EventIds THEN eventToUserToken[e][a] ELSE 0

Range(seq) == {seq[i] : i \in 1 .. Len(seq)}

\* ----------------------------------------------------------- modifiers
\* mutant: a cooldown of half the length
rateLimitedOkHalf(lat, sender, t) == t >= lat[sender] + ACTION_COOLDOWN \div 2

\* rateLimited: block.timestamp >= lastActionTime[msg.sender] + ACTION_COOLDOWN
rateLimitedOk(lat, sender, t) == t >= lat[sender] + ACTION_COOLDOWN

\* ---------------------------------------------------------- attestFriend
attestFriendResultIn(lat, sender, friend, t) ==
    IF ~rateLimitedOk(lat, sender, t) THEN "Action rate limited"
    ELSE IF friend = sender THEN "Cannot attest to yourself"
    ELSE IF friend = Zero THEN "Invalid friend address"
    ELSE "ok"

attestFriendResult(sender, friend) ==
    attestFriendResultIn(lastActionTime, sender, friend, now)

\* mutant: looks up the sender's own record of the friend
friendAttestedOwnRecord(fs, sender, friend) == fs[sender][friend].friend = friend

\* bool friendAttested = friendships[_friend][msg.sender].friend == msg.sender
friendAttested(fs, sender, friend) == fs[friend][sender].friend = sender

\* the storage writes of attestFriend on the friendship mapping
attestFriendWrite(fs, sender, friend) ==
    LET isMutual == friendAttested(fs, sender, friend)
        fs1 == [fs EXCEPT ![sender][friend] =
                   [friend |-> friend, isMutual |-> isMutual, interactionCount |-> 0]]
    IN  IF isMutual THEN [fs1 EXCEPT ![friend][sender].isMutual = TRUE] ELSE fs1

AttestFriend(sender, friend) ==
    /\ attestFriendResult(sender, friend) = "ok"
    /\ lastActionTime' = [lastActionTime EXCEPT ![sender] = now]
    /\ friendships' = attestFriendWrite(friendships, sender, friend)
    /\ everAttested' = everAttested \cup {<<sender, friend>>}
    /\ liveAttested' = liveAttested \cup {<<sender, friend>>}
    /\ lastCall' = [lastCall EXCEPT ![sender] = now]
    /\ UNCHANGED <<backendVars, trustedGPSOracle, paused, payVars, timeVars, eventVars, attendVars, userProfiles, nftContract, nftVars>>

\* ---------------------------------------------------- batchAttestFriends
\* the loop: attestFriend on each element in turn, the whole call reverting
\* with the first failure. st = [res, fs, lat, ever]
RECURSIVE batchRun(_, _, _, _)
batchRun(st, sender, friends, i) ==
    IF i > Len(friends) \/ st.res # "ok" THEN st
    ELSE LET r == attestFriendResultIn(st.lat, sender, friends[i], now)
         IN  IF r # "ok" THEN [st EXCEPT !.res = r]
             ELSE batchRun([res  |-> "ok",
                            fs   |-> attestFriendWrite(st.fs, sender, friends[i]),
                            lat  |-> [st.lat EXCEPT ![sender] = now],
                            ever |-> st.ever \cup {<<sender, friends[i]>>}],
                           sender, friends, i + 1)

batchOutcome(sender, friends) ==
    batchRun([res |-> "ok", fs |-> friendships, lat |-> lastActionTime,
              ever |-> everAttested], sender, friends, 1)

batchAttestFriendsResult(sender, friends) == batchOutcome(sender, friends).res

BatchAttestFriends(sender, friends) ==
    LET out == batchOutcome(sender, friends)
    IN  /\ out.res = "ok"
        /\ friendships' = out.fs
        /\ lastActionTime' = out.lat
        /\ everAttested' = out.ever
        /\ liveAttested' = liveAttested \cup {<<sender, friends[i]>> : i \in 1 .. Len(friends)}
        /\ lastCall' = IF Len(friends) > 0 THEN [lastCall EXCEPT ![sender] = now]
                                           ELSE lastCall
        /\ UNCHANGED <<backendVars, trustedGPSOracle, paused, payVars, timeVars, eventVars, attendVars, userProfiles, nftContract, nftVars>>

\* ---------------------------------------------------------- removeFriend
\* mutant: the reverse record is deleted as well
RemoveFriendBothWays(sender, friend) ==
    /\ friendships' = [friendships EXCEPT ![sender][friend] = NoFriendship,
                                          ![friend][sender] = NoFriendship]
    /\ liveAttested' = liveAttested \ {<<sender, friend>>}
    /\ UNCHANGED <<backendVars, trustedGPSOracle, paused, payVars, timeVars, rateVars, everAttested, eventVars, attendVars,
                   userProfiles, nftContract, nftVars>>

RemoveFriend(sender, friend) ==
    /\ friendships' = [friendships EXCEPT ![sender][friend] = NoFriendship]
    /\ liveAttested' = liveAttested \ {<<sender, friend>>}
    /\ UNCHANGED <<backendVars, trustedGPSOracle, paused, payVars, timeVars, rateVars, everAttested, eventVars, attendVars,
                   userProfiles, nftContract, nftVars>>

\* ----------------------------------------------------------- createEvent
\* mutant: the loop stops after the first invited friend
allMutualFirstOnly(sender, invited) ==
    Len(invited) = 0 \/ friendships[sender][invited[1]].isMutual

\* the loop over _invitedFriends: friendships[msg.sender][_invitedFriends[i]].isMutual
allMutual(sender, invited) ==
    \A i \in 1 .. Len(invited) : friendships[sender][invited[i]].isMutual

\* mutant: the upper limit on the invite list is off by one
createEventResultOneMore(sender, name, scheduledTime, radius, invited) ==
    IF ~rateLimitedOk(lastActionTime, sender, now) THEN "Action rate limited"
    ELSE IF name = "" THEN "Event name required"
    ELSE IF ~(scheduledTime > now + ONE_HOUR)
         THEN "Event must be at least 1 hour in future"
    ELSE IF ~(Len(invited) >= MIN_FRIENDS_PER_EVENT) THEN "Need at least 1 friend"
    ELSE IF ~(Len(invited) <= MAX_FRIENDS_PER_EVENT + 1) THEN "Too many friends"
    ELSE IF ~(radius > 0 /\ radius <= MAX_RADIUS) THEN "Invalid radius"
    ELSE IF ~allMutual(sender, invited) THEN "All friends must be mutually attested"
    ELSE "ok"

\* mutant: a radius of MAX_RADIUS + 1 is accepted
createEventResultWideRadius(sender, name, scheduledTime, radius, invited) ==
    IF ~rateLimitedOk(lastActionTime, sender, now) THEN "Action rate limited"
    ELSE IF name = "" THEN "Event name required"
    ELSE IF ~(scheduledTime > now + ONE_HOUR)
         THEN "Event must be at least 1 hour in future"
    ELSE IF ~(Len(invited) >= MIN_FRIENDS_PER_EVENT) THEN "Need at least 1 friend"
    ELSE IF ~(Len(invited) <= MAX_FRIENDS_PER_EVENT) THEN "Too many friends"
    ELSE IF ~(radius > 0 /\ radius <= MAX_RADIUS + 1) THEN "Invalid radius"
    ELSE IF ~allMutual(sender, invited) THEN "All friends must be mutually attested"
    ELSE "ok"

createEventResult(sender, name, scheduledTime, radius, invited) ==
    IF ~rateLimitedOk(lastActionTime, sender, now) THEN "Action rate limited"
    ELSE IF name = "" THEN "Event name required"
    ELSE IF ~(scheduledTime > now + ONE_HOUR)
         THEN "Event must be at least 1 hour in future"
    ELSE IF ~(Len(invited) >= MIN_FRIENDS_PER_EVENT) THEN "Need at least 1 friend"
    ELSE IF ~(Len(invited) <= MAX_FRIENDS_PER_EVENT) THEN "Too many friends"
    ELSE IF ~(radius > 0 /\ radius <= MAX_RADIUS) THEN "Invalid radius"
    ELSE IF ~allMutual(sender, invited) THEN "All friends must be mutually attested"
    ELSE "ok"

CreateEvent(sender, name, scheduledTime, lat, lng, radius, invited) ==
    /\ eventIds < MaxEvents
    /\ createEventResult(sender, name, scheduledTime, radius, invited) = "ok"
    /\ lastActionTime' = [lastActionTime EXCEPT ![sender] = now]
    /\ lastCall' = [lastCall EXCEPT ![sender] = now]
    /\ eventIds' = eventIds + 1
    /\ events' = [events EXCEPT ![eventIds + 1] =
                     [creator |-> sender, scheduledTime |-> scheduledTime,
                      centerLat |-> lat, centerLng |-> lng, radiusMeters |-> radius,
                      isActive |-> TRUE, name |-> name, ipfsHash |-> "",
                      invitedFriends |-> invited]]
    /\ userEvents' = [userEvents EXCEPT ![sender] = Append(@, eventIds + 1)]
    /\ userProfiles' = [userProfiles EXCEPT ![sender].eventsCreated = @ + 1]
    /\ UNCHANGED lastFinal
    /\ UNCHANGED <<backendVars, trustedGPSOracle, paused, payVars, timeVars, friendVars, attendVars, nftContract, nftVars>>

\* ------------------------------------------------------ _isWithinGeofence
\* mutant: division rounding toward minus infinity
floorDiv(a, b) == a \div b

\* Solidity's signed division truncates toward zero
truncDiv(a, b) == IF a >= 0 THEN a \div b ELSE -((-a) \div b)

isWithinGeofence(lat, lng, ev) ==
    LET latDiff   == lat - ev.centerLat
        lngDiff   == lng - ev.centerLng
        latMeters == truncDiv(latDiff * METERS_PER_DEGREE, COORD_SCALE)
        lngMeters == truncDiv(lngDiff * METERS_PER_DEGREE, COORD_SCALE)
        distanceSquared == latMeters * latMeters + lngMeters * lngMeters
        radiusSquared   == ev.radiusMeters * ev.radiusMeters
    IN  distanceSquared <= radiusSquared

\* -------------------------------------------------- verifyLocationSimple
\* mutant: anyone is let in once somebody has been invited
isAuthorizedAnyInvite(sender, ev) ==
    \/ sender = ev.creator
    \/ Len(ev.invitedFriends) > 0

\* msg.sender == creator, or found by the scan of invitedFriends
isAuthorized(sender, ev) ==
    \/ sender = ev.creator
    \/ \E i \in 1 .. Len(ev.invitedFriends) : ev.invitedFriends[i] = sender

\* mutant: isActive is not consulted
verifyLocationSimpleResultNoActiveCheck(sender, e, lat, lng) ==
    LET grassEvent == eventAt(e)
    IN  IF ~rateLimitedOk(lastActionTime, sender, now) THEN "Action rate limited"
        ELSE IF attendedAt(e, sender) THEN "Already verified location"
        ELSE IF ~isAuthorized(sender, grassEvent) THEN "Not authorized"
        ELSE IF ~isWithinGeofence(lat, lng, grassEvent) THEN "Outside geofence"
        ELSE "ok"

\* mutant: hasAttended is not consulted
verifyLocationSimpleResultNoAttendedCheck(sender, e, lat, lng) ==
    LET grassEvent == eventAt(e)
    IN  IF ~rateLimitedOk(lastActionTime, sender, now) THEN "Action rate limited"
        ELSE IF ~grassEvent.isActive THEN "Event not active"
        ELSE IF ~isAuthorized(sender, grassEvent) THEN "Not authorized"
        ELSE IF ~isWithinGeofence(lat, lng, grassEvent) THEN "Outside geofence"
        ELSE "ok"

verifyLocationSimpleResult(sender, e, lat, lng) ==
    LET grassEvent == eventAt(e)
    IN  IF ~rateLimitedOk(lastActionTime, sender, now) THEN "Action rate limited"
        ELSE IF ~grassEvent.isActive THEN "Event not active"
        ELSE IF attendedAt(e, sender) THEN "Already verified location"
        ELSE IF ~isAuthorized(sender, grassEvent) THEN "Not authorized"
        ELSE IF ~isWithinGeofence(lat, lng, grassEvent) THEN "Outside geofence"
        ELSE "ok"

VerifyLocationSimple(sender, e, lat, lng) ==
    /\ e \in EventIds
    /\ verifyLocationSimpleResult(sender, e, lat, lng) = "ok"
    /\ lastActionTime' = [lastActionTime EXCEPT ![sender] = now]
    /\ lastCall' = [lastCall EXCEPT ![sender] = now]
    /\ verified' = verified \cup {<<e, sender>>}
    /\ locationProofs' = [locationProofs EXCEPT ![e][sender] =
                             [user |-> sender, lat |-> lat, lng |-> lng, signature |-> ""]]
    /\ hasAttended' = [hasAttended EXCEPT ![e][sender] = TRUE]
    /\ eventAttendees' = [eventAttendees EXCEPT ![e] = Append(@, sender)]
    /\ userProfiles' = [userProfiles EXCEPT ![sender].eventsAttended = @ + 1]
    /\ UNCHANGED <<backendVars, trustedGPSOracle, paused, payVars, timeVars, friendVars, eventVars, nftContract, nftVars>>

\* -------------------------------------------------------- finalizeMemory
\* mutant: one attendee is enough
finalizeMemoryResultOneAttendee(sender, e, ipfsHash) ==
    IF sender # eventAt(e).creator THEN "Only creator can finalize"
    ELSE IF ipfsHash = "" THEN "IPFS hash required"
    ELSE IF ~(Len(attendeesAt(e)) >= 1) THEN "Need at least 2 attendees"
    ELSE "ok"

\* mutant: any attendee may finalize
finalizeMemoryResultAnyAttendee(sender, e, ipfsHash) ==
    IF ~(sender = eventAt(e).creator \/ attendedAt(e, sender)) THEN "Only creator can finalize"
    ELSE IF ipfsHash = "" THEN "IPFS hash required"
    ELSE IF ~(Len(attendeesAt(e)) >= MIN_ATTENDEES) THEN "Need at least 2 attendees"
    ELSE "ok"

finalizeMemoryResult(sender, e, ipfsHash) ==
    IF sender # eventAt(e).creator THEN "Only creator can finalize"
    ELSE IF ipfsHash = "" THEN "IPFS hash required"
    ELSE IF ~(Len(attendeesAt(e)) >= MIN_ATTENDEES) THEN "Need at least 2 attendees"
    ELSE "ok"

\* grassEvent.ipfsHash = _ipfsHash
finalizeWrite(grassEvent, ipfsHash) == [grassEvent EXCEPT !.ipfsHash = ipfsHash]

FinalizeMemory(sender, e, ipfsHash) ==
    /\ e \in EventIds
    /\ finalizeMemoryResult(sender, e, ipfsHash) = "ok"
    /\ events' = [events EXCEPT ![e] = finalizeWrite(@, ipfsHash)]
    /\ lastFinal' = [lastFinal EXCEPT ![e] = [sender |-> sender, hash |-> ipfsHash]]
    /\ UNCHANGED <<backendVars, trustedGPSOracle, paused, payVars, timeVars, friendVars, rateVars, eventIds, userEvents,
                   attendVars, userProfiles, nftContract, nftVars>>

\* ----------------------------------------------------------- cancelEvent
cancelEventResult(sender, e) ==
    IF eventAt(e).creator # sender THEN "Only creator can cancel" ELSE "ok"

CancelEvent(sender, e) ==
    /\ e \in EventIds
    /\ cancelEventResult(sender, e) = "ok"
    /\ events' = [events EXCEPT ![e].isActive = FALSE]
    /\ UNCHANGED <<backendVars, trustedGPSOracle, paused, payVars, timeVars, friendVars, rateVars, eventIds, userEvents, lastFinal,
                   attendVars, userProfiles, nftContract, nftVars>>

\* -------------------------------------------------------- admin functions
onlyOwner(sender) == IF sender # Owner THEN "Ownable: caller is not the owner" ELSE "ok"

setNFTContractResult(sender) ==
    IF onlyOwner(sender) # "ok" THEN onlyOwner(sender)
    ELSE IF nftContract # Zero THEN "NFT contract already set"
    ELSE "ok"

SetNFTContract(sender, addr) ==
    /\ setNFTContractResult(sender) = "ok"
    /\ nftContract' = addr
    /\ UNCHANGED <<backendVars, trustedGPSOracle, paused, payVars, timeVars, friendVars, rateVars, eventVars, attendVars,
                   userProfiles, nftVars>>

\* setTrustedGPSOracle(_oracle) external onlyOwner
setTrustedGPSOracleResult(sender, oracle) == onlyOwner(sender)

SetTrustedGPSOracle(sender, oracle) ==
    /\ setTrustedGPSOracleResult(sender, oracle) = "ok"
    /\ trustedGPSOracle' = oracle
    /\ UNCHANGED <<backendVars, paused, payVars, timeVars, friendVars, rateVars, eventVars, attendVars,
                   userProfiles, nftContract, nftVars>>

\* mutant: pauseEvent without the onlyOwner modifier
pauseEventResultAnyone(sender, e) == "ok"

\* pauseEvent(_eventId) external onlyOwner
pauseEventResult(sender, e) == onlyOwner(sender)

PauseEvent(sender, e) ==
    /\ e \in EventIds
    /\ pauseEventResult(sender, e) = "ok"
    /\ events' = [events EXCEPT ![e].isActive = FALSE]
    /\ paused' = IF e \in 1 .. eventIds THEN paused \cup {e} ELSE paused
    /\ UNCHANGED <<backendVars, trustedGPSOracle, payVars, timeVars, friendVars, rateVars, eventIds, userEvents, lastFinal,
                   attendVars, userProfiles, nftContract, nftVars>>

\* debugSetEventActive(_eventId, _active) external onlyOwner
debugSetEventActiveResult(sender, e, active) == onlyOwner(sender)

DebugSetEventActive(sender, e, active) ==
    /\ e \in EventIds
    /\ debugSetEventActiveResult(sender, e, active) = "ok"
    /\ events' = [events EXCEPT ![e].isActive = active]
    /\ paused' = IF active THEN paused \ {e} ELSE paused
    /\ UNCHANGED <<backendVars, trustedGPSOracle, payVars, timeVars, friendVars, rateVars, eventIds, userEvents, lastFinal,
                   attendVars, userProfiles, nftContract, nftVars>>

\* debugAddAttendee(_eventId, _attendee) external onlyOwner
debugAddAttendeeResult(sender, e, attendee) == onlyOwner(sender)

DebugAddAttendee(sender, e, attendee) ==
    /\ e \in EventIds
    /\ debugAddAttendeeResult(sender, e, attendee) = "ok"
    /\ IF ~hasAttended[e][attendee]
       THEN /\ eventAttendees' = [eventAttendees EXCEPT ![e] = Append(@, attendee)]
            /\ locationProofs' = [locationProofs EXCEPT ![e][attendee] =
                                     [user |-> attendee, lat |-> 0, lng |-> 0, signature |-> ""]]
            /\ hasAttended' = [hasAttended EXCEPT ![e][attendee] = TRUE]
            /\ UNCHANGED verified
       ELSE UNCHANGED attendVars
    /\ UNCHANGED <<backendVars, trustedGPSOracle, paused, payVars, timeVars, friendVars, rateVars, eventVars, userProfiles,
                   nftContract, nftVars>>

\* ---------------------------------------------------- getFriendshipLevel
\* mutant: each level is reached one interaction late
getFriendshipLevelLate(user, friend) ==
    IF ~friendships[user][friend].isMutual THEN 0
    ELSE LET interactions == friendships[user][friend].interactionCount
         IN  IF interactions = 0 THEN 1
             ELSE IF interactions <= 3 THEN 2
             ELSE IF interactions <= 7 THEN 3
             ELSE IF interactions <= 15 THEN 4
             ELSE 5

getFriendshipLevel(user, friend) ==
    IF ~friendships[user][friend].isMutual THEN 0
    ELSE LET interactions == friendships[user][friend].interactionCount
         IN  IF interactions = 0 THEN 1
             ELSE IF interactions < 3 THEN 2
             ELSE IF interactions < 7 THEN 3
             ELSE IF interactions < 15 THEN 4
             ELSE 5

\* ------------------------------------- TouchGrassNFT._calculateFriendshipLevel
RECURSIVE levelLoop(_, _, _, _, _)
levelLoop(user, crew, i, totalLevel, friendCount) ==
    IF i > Len(crew)
    THEN IF friendCount > 0 THEN totalLevel \div friendCount ELSE 1
    ELSE LET level == IF crew[i] # user THEN getFriendshipLevel(user, crew[i]) ELSE 0
         IN  IF level > 0
             THEN levelLoop(user, crew, i + 1, totalLevel + level, friendCount + 1)
             ELSE levelLoop(user, crew, i + 1, totalLevel, friendCount)

\* mutant: the loop starts at the second crew member
calculateFriendshipLevelSkipFirst(user, crew) == levelLoop(user, crew, 2, 0, 0)

calculateFriendshipLevel(user, crew) == levelLoop(user, crew, 1, 0, 0)

\* coreContract.getFriendshipLevel is an external call: it is made for every crew
\* member other than the user and reverts when coreContract holds no contract
levelCallsOk(user, crew) ==
    coreContract = CoreAddr \/ \A i \in 1 .. Len(crew) : crew[i] = user

\* ------------------------------------------- TouchGrassNFT.mintMemoryNFT
\* mutant: the eventToUserToken check is missing
nftMintResultNoTokenCheck(caller, to, e, crew) ==
    IF caller # coreContract THEN "Only core contract can mint"
    ELSE IF to = Zero THEN "ERC721: mint to the zero address"
    ELSE IF ~levelCallsOk(to, crew) THEN "call to non-contract"
    ELSE "ok"

nftMintResult(caller, to, e, crew) ==
    IF caller # coreContract THEN "Only core contract can mint"
    ELSE IF tokenAt(e, to) # 0 THEN "User already has NFT for this event"
    ELSE IF to = Zero THEN "ERC721: mint to the zero address"
    ELSE IF ~levelCallsOk(to, crew) THEN "call to non-contract"
    ELSE "ok"

\* the storage writes of TouchGrassNFT.mintMemoryNFT
nftMintWrite(to, e, ipfsHash, crew) ==
    LET tokenId == tokenIds + 1
    IN  /\ tokenIds' = tokenId
        /\ tokenOwner' = [tokenOwner EXCEPT ![tokenId] = to]
        /\ memoryNFTs' = [memoryNFTs EXCEPT ![tokenId] =
               [eventId |-> e, crewMembers |-> crew, baseIPFSHash |-> ipfsHash,
                friendshipLevel |-> calculateFriendshipLevel(to, crew),
                isPublic |-> FALSE]]
        /\ eventToUserToken' = [eventToUserToken EXCEPT ![e][to] = tokenId]
        /\ mintedTo' = [mintedTo EXCEPT ![tokenId] = to]
        /\ UNCHANGED coreContract

\* a mint sent straight to the NFT contract (by whoever is its coreContract)
NFTMintMemoryNFT(caller, to, e, ipfsHash, crew) ==
    /\ tokenIds < MaxTokens
    /\ e \in EventIds
    /\ nftMintResult(caller, to, e, crew) = "ok"
    /\ nftMintWrite(to, e, ipfsHash, crew)
    /\ UNCHANGED <<backendVars, trustedGPSOracle, paused, payVars, timeVars, friendVars, rateVars, eventVars, attendVars,
                   userProfiles, nftContract>>

\* ------------------------------------------ TouchGrassCore.mintMemoryNFT
\* mutant: the ipfsHash check is missing
coreMintResultNoFinalCheck(sender, e) ==
    IF nftContract = Zero THEN "NFT contract not set"
    ELSE IF proofAt(e, sender).user # sender THEN "Location not verified"
    ELSE IF nftContract # NFTAddr THEN "call to non-contract"
    ELSE nftMintResult(CoreAddr, sender, e, attendeesAt(e))

coreMintResult(sender, e) ==
    IF nftContract = Zero THEN "NFT contract not set"
    ELSE IF eventAt(e).ipfsHash = "" THEN "Memory not finalized"
    ELSE IF proofAt(e, sender).user # sender THEN "Location not verified"
    ELSE IF nftContract # NFTAddr THEN "call to non-contract"
    ELSE nftMintResult(CoreAddr, sender, e, attendeesAt(e))

\* the loop updating the interaction counts among the attendees
RECURSIVE countLoop(_, _, _, _)
countLoop(fs, sender, attendees, i) ==
    IF i > Len(attendees) THEN fs
    ELSE LET a == attendees[i]
         IN  IF a # sender /\ fs[sender][a].isMutual
             THEN countLoop([fs EXCEPT ![sender][a].interactionCount = @ + 1,
                                       ![a][sender].interactionCount = @ + 1],
                            sender, attendees, i + 1)
             ELSE countLoop(fs, sender, attendees, i + 1)

\* mutant: only the caller's own records are counted on
RECURSIVE countLoopOneWay(_, _, _, _)
countLoopOneWay(fs, sender, attendees, i) ==
    IF i > Len(attendees) THEN fs
    ELSE LET a == attendees[i]
         IN  IF a # sender /\ fs[sender][a].isMutual
             THEN countLoopOneWay([fs EXCEPT ![sender][a].interactionCount = @ + 1],
                                  sender, attendees, i + 1)
             ELSE countLoopOneWay(fs, sender, attendees, i + 1)

updateInteractionCountsOneWay(fs, sender, attendees) ==
    countLoopOneWay(fs, sender, attendees, 1)

\* for (uint i = 0; i < attendees.length; i++) ..
updateInteractionCounts(fs, sender, attendees) == countLoop(fs, sender, attendees, 1)

MintMemoryNFT(sender, e) ==
    /\ tokenIds < MaxTokens
    /\ e \in EventIds
    /\ coreMintResult(sender, e) = "ok"
    /\ nftMintWrite(sender, e, events[e].ipfsHash, eventAttendees[e])
    /\ friendships' = updateInteractionCounts(friendships, sender, eventAttendees[e])
    /\ UNCHANGED <<backendVars, trustedGPSOracle, paused, payVars, timeVars, everAttested, liveAttested, rateVars, eventVars,
                   attendVars, userProfiles, nftContract>>

\* ERC721._exists
tokenExists(t) == t \in TokenIds /\ t <= tokenIds

\* --------------------------------------- TouchGrassNFT.updateFriendshipLevel
\* anyone can call it; the level is recalculated for the token's current owner
updateFriendshipLevelResult(sender, t) ==
    IF ~tokenExists(t) THEN "Token does not exist"
    ELSE IF ~levelCallsOk(tokenOwner[t], memoryNFTs[t].crewMembers)
         THEN "call to non-contract"
    ELSE "ok"

UpdateFriendshipLevel(sender, t) ==
    /\ updateFriendshipLevelResult(sender, t) = "ok"
    /\ LET newFriendshipLevel ==
               calculateFriendshipLevel(tokenOwner[t], memoryNFTs[t].crewMembers)
       IN  memoryNFTs' = IF newFriendshipLevel # memoryNFTs[t].friendshipLevel
                         THEN [memoryNFTs EXCEPT ![t].friendshipLevel = newFriendshipLevel]
                         ELSE memoryNFTs
    /\ UNCHANGED <<backendVars, trustedGPSOracle, paused, payVars, timeVars, friendVars,
                   rateVars, eventVars, attendVars, userProfiles, nftContract,
                   coreContract, tokenIds, tokenOwner, eventToUserToken, mintedTo>>

\* ------------------------------------------- TouchGrassNFT.setCoreContract
SetCoreContract(sender, addr) ==
    /\ onlyOwner(sender) = "ok"
    /\ coreContract' = addr
    /\ UNCHANGED <<backendVars, trustedGPSOracle, paused, payVars, timeVars, friendVars, rateVars, eventVars, attendVars,
                   userProfiles, nftContract, tokenIds, tokenOwner, memoryNFTs,
                   eventToUserToken, mintedTo>>

\* ------------------------------------------------- ERC721.transferFrom
transferFromResult(sender, to, t) ==
    IF ~(t \in TokenIds /\ t <= tokenIds) THEN "ERC721: invalid token ID"
    ELSE IF tokenOwner[t] # sender THEN "ERC721: caller is not token owner or approved"
    ELSE IF to = Zero THEN "ERC721: transfer to the zero address"
    ELSE "ok"

TransferFrom(sender, to, t) ==
    /\ transferFromResult(sender, to, t) = "ok"
    /\ tokenOwner' = [tokenOwner EXCEPT ![t] = to]
    /\ UNCHANGED <<backendVars, trustedGPSOracle, paused, payVars, timeVars, friendVars, rateVars, eventVars, attendVars,
                   userProfiles, nftContract, coreContract, tokenIds, memoryNFTs,
                   eventToUserToken, mintedTo>>

\* ------------------------------------------ TouchGrassNFT.makeMemoryPublic

\* mutant: the account the token was minted to, whoever holds it now
makeMemoryPublicResultMinter(sender, t) ==
    IF ~tokenExists(t) THEN "ERC721: invalid token ID"
    ELSE IF mintedTo[t] # sender THEN "Only owner can make public"
    ELSE "ok"

\* ownerOf(_tokenId) reverts for a token that does not exist
makeMemoryPublicResult(sender, t) ==
    IF ~tokenExists(t) THEN "ERC721: invalid token ID"
    ELSE IF tokenOwner[t] # sender THEN "Only owner can make public"
    ELSE "ok"

MakeMemoryPublic(sender, t) ==
    /\ makeMemoryPublicResult(sender, t) = "ok"
    /\ memoryNFTs' = [memoryNFTs EXCEPT ![t].isPublic = TRUE]
    /\ UNCHANGED <<backendVars, trustedGPSOracle, paused, payVars, timeVars, friendVars, rateVars, eventVars, attendVars,
                   userProfiles, nftContract, coreContract, tokenIds, tokenOwner,
                   eventToUserToken, mintedTo>>

\* ----------------------------------------- TouchGrassNFT.getPublicMemories
MAX_PAGE == 50

\* the loop over the token ids 1 .. _tokenIds.current(): publicTokens filled so
\* far, and currentIndex, the number of public tokens passed
RECURSIVE publicLoop(_, _, _, _, _)
publicLoop(i, publicTokens, currentIndex, offset, limit) ==
    IF ~(i <= tokenIds /\ Len(publicTokens) < limit) THEN publicTokens
    ELSE IF memoryNFTs[i].isPublic
         THEN publicLoop(i + 1,
                         IF currentIndex >= offset THEN Append(publicTokens, i)
                                                   ELSE publicTokens,
                         currentIndex + 1, offset, limit)
         ELSE publicLoop(i + 1, publicTokens, currentIndex, offset, limit)

\* mutant: the token at rank offset is skipped as well
getPublicMemoriesSkipOne(offset, limit) ==
    IF ~(limit <= MAX_PAGE) THEN [res |-> "Limit too high", tokens |-> <<>>]
    ELSE [res |-> "ok", tokens |-> publicLoop(1, <<>>, 0, offset + 1, limit)]

getPublicMemories(offset, limit) ==
    IF ~(limit <= MAX_PAGE) THEN [res |-> "Limit too high", tokens |-> <<>>]
    ELSE [res |-> "ok", tokens |-> publicLoop(1, <<>>, 0, offset, limit)]

\* ------------------------------------------------- TouchGrassPaymaster
\* The sponsorshipBudget counter, which is only ever added to and never read, is
\* left out. Core and NFT contract send no call to the paymaster: its callers
\* are the externally owned accounts.
isEligibleForSponsorship(user) ==
    /\ ~hasReceivedSponsorship[user]
    /\ userSponsoredGas[user] < maxSponsorshipPerUser
    /\ pmBalance >= maxSponsorshipPerUser

\* mutant: the refund is not compared with maxSponsorshipPerUser
sponsorGasResultNoLimit(sender, user, gasUsed, gasPrice) ==
    IF ~(sender = pmCoreContract \/ sender = pmNftContract) THEN "Unauthorized"
    ELSE IF ~isEligibleForSponsorship(user) THEN "User not eligible"
    ELSE IF ~(pmBalance >= gasUsed * gasPrice) THEN "Insufficient balance"
    ELSE "ok"

sponsorGasResult(sender, user, gasUsed, gasPrice) ==
    IF ~(sender = pmCoreContract \/ sender = pmNftContract) THEN "Unauthorized"
    ELSE IF ~isEligibleForSponsorship(user) THEN "User not eligible"
    ELSE IF ~(gasUsed * gasPrice <= maxSponsorshipPerUser) THEN "Refund exceeds limit"
    ELSE IF ~(pmBalance >= gasUsed * gasPrice) THEN "Insufficient balance"
    ELSE "ok"

SponsorGas(sender, user, gasUsed, gasPrice) ==
    LET gasRefund == gasUsed * gasPrice
    IN  /\ sponsorGasResult(sender, user, gasUsed, gasPrice) = "ok"
        /\ hasReceivedSponsorship' = [hasReceivedSponsorship EXCEPT ![user] = TRUE]
        /\ userSponsoredGas' = [userSponsoredGas EXCEPT ![user] = @ + gasRefund]
        /\ totalSponsored' = totalSponsored + gasRefund
        /\ pmBalance' = pmBalance - gasRefund
        /\ sponsoredUnder' = [sponsoredUnder EXCEPT ![user] = maxSponsorshipPerUser]
        /\ UNCHANGED <<pmCoreContract, pmNftContract, maxSponsorshipPerUser>>
        /\ UNCHANGED <<backendVars, trustedGPSOracle, paused, timeVars, friendVars, rateVars, eventVars, attendVars,
                       userProfiles, nftContract, nftVars>>

\* addFunds is payable and onlyOwner; msg.value arrives in the balance
addFundsResult(sender, value) == onlyOwner(sender)

AddFunds(sender, value) ==
    /\ addFundsResult(sender, value) = "ok"
    /\ pmBalance + value <= MaxFunds
    /\ pmBalance' = pmBalance + value
    /\ UNCHANGED <<pmCoreContract, pmNftContract, hasReceivedSponsorship,
                   userSponsoredGas, maxSponsorshipPerUser, totalSponsored,
                   sponsoredUnder>>
    /\ UNCHANGED <<backendVars, trustedGPSOracle, paused, timeVars, friendVars, rateVars, eventVars, attendVars,
                   userProfiles, nftContract, nftVars>>

\* receive(): a plain transfer of ether from anyone
Receive(sender, value) ==
    /\ pmBalance + value <= MaxFunds
    /\ pmBalance' = pmBalance + value
    /\ UNCHANGED <<pmCoreContract, pmNftContract, hasReceivedSponsorship,
                   userSponsoredGas, maxSponsorshipPerUser, totalSponsored,
                   sponsoredUnder>>
    /\ UNCHANGED <<backendVars, trustedGPSOracle, paused, timeVars, friendVars, rateVars, eventVars, attendVars,
                   userProfiles, nftContract, nftVars>>

withdrawFundsResult(sender, amount) ==
    IF onlyOwner(sender) # "ok" THEN onlyOwner(sender)
    ELSE IF ~(pmBalance >= amount) THEN "Insufficient balance"
    ELSE "ok"

WithdrawFunds(sender, amount) ==
    /\ withdrawFundsResult(sender, amount) = "ok"
    /\ pmBalance' = pmBalance - amount
    /\ UNCHANGED <<pmCoreContract, pmNftContract, hasReceivedSponsorship,
                   userSponsoredGas, maxSponsorshipPerUser, totalSponsored,
                   sponsoredUnder>>
    /\ UNCHANGED <<backendVars, trustedGPSOracle, paused, timeVars, friendVars, rateVars, eventVars, attendVars,
                   userProfiles, nftContract, nftVars>>

updateSponsorshipParamsResult(sender, maxPerUser) == onlyOwner(sender)

UpdateSponsorshipParams(sender, maxPerUser) ==
    /\ updateSponsorshipParamsResult(sender, maxPerUser) = "ok"
    /\ maxSponsorshipPerUser' = maxPerUser
    /\ UNCHANGED <<pmCoreContract, pmNftContract, hasReceivedSponsorship,
                   userSponsoredGas, totalSponsored, pmBalance, sponsoredUnder>>
    /\ UNCHANGED <<backendVars, trustedGPSOracle, paused, timeVars, friendVars, rateVars, eventVars, attendVars,
                   userProfiles, nftContract, nftVars>>

\* ------------------------------------------------------------------ time
\* the next block's timestamp; the clock of the model stops at TimeLimit
TimeLimit == (MaxTicks + 1) * ACTION_COOLDOWN

AdvanceTime(d) ==
    /\ now + d <= TimeLimit
    /\ now' = now + d
    /\ UNCHANGED <<backendVars, trustedGPSOracle, paused, payVars, friendVars, rateVars, eventVars, attendVars, userProfiles,
                   nftContract, nftVars>>

\* ------------------------------------------------------- inputs drawn
Names       == {"picnic"}
Hashes      == {"QmA", "QmB"}
InviteLists == UNION {[1 .. n -> Users] : n \in 1 .. MaxInvite}
BatchLists  == UNION {[1 .. n -> Users] : n \in 0 .. 2}

\* the backend when its module has loaded: the validator chains of the routes
\* are built once, with the bound of scheduledTime computed at that moment
SrvBoot == ONE_HOUR
NoRequest  == [route |-> "none", address |-> Zero, other |-> Zero, key |-> "absent",
               flag |-> "absent", fields |-> "valid", chain |-> "passes",
               scheduledTime |-> 0, handledAt |-> 0]
NoResponse == [status |-> 0, mode |-> "none", executed |-> FALSE]

InitServer(local) ==
    /\ isLocal = local
    /\ srvClock = SrvBoot
    /\ minScheduledTime = SrvBoot + ONE_HOUR
    /\ lastRequest = NoRequest
    /\ lastResponse = NoResponse
    /\ sentTx = {}

\* the paymaster after its constructor, given the two addresses it was passed
InitPaymaster(core, nft) ==
    /\ pmCoreContract = core
    /\ pmNftContract = nft
    /\ hasReceivedSponsorship = [a \in Addrs |-> FALSE]
    /\ userSponsoredGas = [a \in Addrs |-> 0]
    /\ maxSponsorshipPerUser = INITIAL_MAX_SPONSORSHIP
    /\ totalSponsored = 0
    /\ pmBalance = 0
    /\ sponsoredUnder = [a \in Addrs |-> NoCall]

\* the three contracts after construction; the paymaster is passed the core and
\* NFT addresses, as in the deployment script
Init ==
    /\ InitPaymaster(CoreAddr, NFTAddr)
    /\ now = ACTION_COOLDOWN
    /\ friendships = [a \in Addrs |-> [b \in Addrs |-> NoFriendship]]
    /\ lastActionTime = [a \in Addrs |-> 0]
    /\ eventIds = 0
    /\ events = [e \in EventIds |-> NoEvent]
    /\ locationProofs = [e \in EventIds |-> [a \in Addrs |-> NoProof]]
    /\ eventAttendees = [e \in EventIds |-> <<>>]
    /\ hasAttended = [e \in EventIds |-> [a \in Addrs |-> FALSE]]
    /\ userEvents = [a \in Addrs |-> <<>>]
    /\ userProfiles = [a \in Addrs |-> NoProfile]
    /\ nftContract = Zero
    /\ trustedGPSOracle = Owner
    /\ InitServer(FALSE)
    /\ coreContract = Zero
    /\ tokenIds = 0
    /\ tokenOwner = [t \in TokenIds |-> Zero]
    /\ memoryNFTs = [t \in TokenIds |-> NoMemory]
    /\ eventToUserToken = [e \in EventIds |-> [a \in Addrs |-> 0]]
    /\ everAttested = {}
    /\ liveAttested = {}
    /\ lastCall = [a \in Addrs |-> NoCall]
    /\ verified = {}
    /\ lastFinal = [e \in EventIds |-> NoFinal]
    /\ mintedTo = [t \in TokenIds |-> Zero]
    /\ paused = {}


\* friendship graph alone, three users sending
NextFriend ==
    \/ \E s \in Users, f \in Users : AttestFriend(s, f)
    \/ \E s \in Users, fl \in BatchLists : BatchAttestFriends(s, fl)
    \/ \E s \in Users, f \in Users : RemoveFriend(s, f)
    \/ AdvanceTime(ACTION_COOLDOWN)

SpecFriend == Init /\ [][NextFriend]_vars

\* event lifecycle of TouchGrassCore
Next ==
    \/ \E s \in Crew, f \in Crew : AttestFriend(s, f)
    \/ \E s \in Crew, f \in Crew : RemoveFriend(s, f)
    \/ \E s \in Crew, n \in Names, inv \in InviteLists :
          CreateEvent(s, n, now + ONE_HOUR + 1, 0, 0, 100, inv)
    \/ \E s \in Users, e \in EventIds : VerifyLocationSimple(s, e, 0, 0)
    \/ \E s \in Accounts, e \in EventIds, h \in Hashes : FinalizeMemory(s, e, h)
    \/ \E s \in Accounts, e \in EventIds : CancelEvent(s, e)
    \/ \E e \in EventIds : PauseEvent(Owner, e)
    \/ \E e \in EventIds, b \in BOOLEAN : DebugSetEventActive(Owner, e, b)
    \/ \E e \in EventIds, a \in Users : DebugAddAttendee(Owner, e, a)
    \/ AdvanceTime(ACTION_COOLDOWN)

Spec == Init /\ [][Next]_vars

\* minting: both contracts, wiring included
NextMint ==
    \/ \E s \in Crew, f \in Crew : AttestFriend(s, f)
    \/ \E s \in Crew, n \in Names, inv \in InviteLists :
          CreateEvent(s, n, now + ONE_HOUR + 1, 0, 0, 100, inv)
    \/ \E s \in Crew, e \in EventIds : VerifyLocationSimple(s, e, 0, 0)
    \/ \E e \in EventIds, a \in Crew : DebugAddAttendee(Owner, e, a)
    \/ \E s \in Crew, e \in EventIds : FinalizeMemory(s, e, "QmA")
    \/ SetNFTContract(Owner, NFTAddr)
    \/ \E a \in {CoreAddr, Owner} : SetCoreContract(Owner, a)
    \/ \E s \in Crew, e \in EventIds : MintMemoryNFT(s, e)
    \/ \E to \in Crew, e \in EventIds : NFTMintMemoryNFT(Owner, to, e, "QmX", <<>>)
    \/ \E s \in Crew, to \in Crew, t \in TokenIds : TransferFrom(s, to, t)
    \/ AdvanceTime(ACTION_COOLDOWN)

SpecMint == Init /\ [][NextMint]_vars

\* the event lifecycle up to minting, with the owner's pause switch
NextPause ==
    \/ \E s \in Crew, f \in Crew : AttestFriend(s, f)
    \/ \E s \in Crew, n \in Names, inv \in InviteLists :
          CreateEvent(s, n, now + ONE_HOUR + 1, 0, 0, 100, inv)
    \/ \E s \in Crew, e \in EventIds : VerifyLocationSimple(s, e, 0, 0)
    \/ \E s \in Crew, e \in EventIds : FinalizeMemory(s, e, "QmA")
    \/ \E s \in Accounts, e \in EventIds : CancelEvent(s, e)
    \/ \E s \in Accounts, e \in EventIds : PauseEvent(s, e)
    \/ \E e \in EventIds, b \in BOOLEAN : DebugSetEventActive(Owner, e, b)
    \/ SetNFTContract(Owner, NFTAddr)
    \/ SetCoreContract(Owner, CoreAddr)
    \/ \E s \in Crew, e \in EventIds : MintMemoryNFT(s, e)
    \/ AdvanceTime(ACTION_COOLDOWN)

SpecPause == Init /\ [][NextPause]_vars

\* the three rate-limited functions under a clock that advances by half a cooldown
NextRate ==
    \/ \E s \in Crew, f \in Crew : AttestFriend(s, f)
    \/ \E s \in Crew, fl \in BatchLists : BatchAttestFriends(s, fl)
    \/ \E s \in Crew, n \in Names, inv \in InviteLists :
          CreateEvent(s, n, now + ONE_HOUR + 1, 0, 0, 100, inv)
    \/ \E s \in Crew, e \in EventIds : VerifyLocationSimple(s, e, 0, 0)
    \/ AdvanceTime(ACTION_COOLDOWN \div 2)

SpecRate == Init /\ [][NextRate]_vars

\* the geofence: events at two centres and three radii, locations submitted at
\* offsets from the centre on both sides of the boundary
Centres    == {<<0, 0>>, <<40748817, -73985664>>}
Radii      == {1, 100, 1000}
LatSteps   == {0, 810, -901, 990}
LngSteps   == {0, 810}

NextGeo ==
    \/ \E s \in Crew, f \in Crew : AttestFriend(s, f)
    \/ \E s \in Crew, n \in Names, c \in Centres, r \in Radii, inv \in InviteLists :
          CreateEvent(s, n, now + ONE_HOUR + 1, c[1], c[2], r, inv)
    \/ \E s \in Crew, e \in EventIds, dlat \in LatSteps, dlng \in LngSteps :
          VerifyLocationSimple(s, e, events[e].centerLat + dlat,
                                     events[e].centerLng + dlng)
    \/ AdvanceTime(ACTION_COOLDOWN)

SpecGeo == Init /\ [][NextGeo]_vars

\* invite lists of every length from none to one more than the limit; the code
\* looks at the length of the list and at each entry, not at whether the
\* entries differ, so a list may name the same friend several times
PartyLists == {[i \in 1 .. n |-> f] : n \in 0 .. MAX_FRIENDS_PER_EVENT + 1, f \in Crew}

NextInvite ==
    \/ \E s \in Crew, f \in Crew : AttestFriend(s, f)
    \/ \E s \in Crew, n \in Names, inv \in PartyLists :
          CreateEvent(s, n, now + ONE_HOUR + 1, 0, 0, 100, inv)
    \/ \E s \in Users, e \in EventIds : VerifyLocationSimple(s, e, 0, 0)
    \/ AdvanceTime(ACTION_COOLDOWN)

SpecInvite == Init /\ [][NextInvite]_vars

\* friendship levels: the two records between u1 and u2 start with any
\* interaction count, as left by earlier mints, attestations and removals
LevelRecords(friend) ==
    {[friend |-> f, isMutual |-> m, interactionCount |-> c] :
        f \in {friend}, m \in BOOLEAN, c \in 0 .. MaxInteractions}
      \cup {[friend |-> Zero, isMutual |-> FALSE, interactionCount |-> c] :
                c \in 0 .. MaxInteractions}

InitLevel ==
    /\ InitPaymaster(CoreAddr, NFTAddr)
    /\ now = ACTION_COOLDOWN
    /\ \E r12 \in LevelRecords("u2"), r21 \in LevelRecords("u1") :
          \* two records that are both present are both mutual, and a present
          \* record that is not mutual has not been counted on since it was written
          /\ (r12.friend # Zero /\ r21.friend # Zero) => (r12.isMutual /\ r21.isMutual)
          /\ (r12.friend # Zero /\ ~r12.isMutual) => r12.interactionCount = 0
          /\ (r21.friend # Zero /\ ~r21.isMutual) => r21.interactionCount = 0
          /\ friendships = [a \in Addrs |-> [b \in Addrs |->
                               IF a = "u1" /\ b = "u2" THEN r12
                               ELSE IF a = "u2" /\ b = "u1" THEN r21
                               ELSE NoFriendship]]
    /\ lastActionTime = [a \in Addrs |-> 0]
    /\ eventIds = 0
    /\ events = [e \in EventIds |-> NoEvent]
    /\ locationProofs = [e \in EventIds |-> [a \in Addrs |-> NoProof]]
    /\ eventAttendees = [e \in EventIds |-> <<>>]
    /\ hasAttended = [e \in EventIds |-> [a \in Addrs |-> FALSE]]
    /\ userEvents = [a \in Addrs |-> <<>>]
    /\ userProfiles = [a \in Addrs |-> NoProfile]
    /\ nftContract = Zero
    /\ trustedGPSOracle = Owner
    /\ InitServer(FALSE)
    /\ coreContract = Zero
    /\ tokenIds = 0
    /\ tokenOwner = [t \in TokenIds |-> Zero]
    /\ memoryNFTs = [t \in TokenIds |-> NoMemory]
    /\ eventToUserToken = [e \in EventIds |-> [a \in Addrs |-> 0]]
    /\ everAttested = {<<"u1", "u2">>, <<"u2", "u1">>}
    /\ liveAttested = {p \in {<<"u1", "u2">>, <<"u2", "u1">>} :
                          friendships[p[1]][p[2]].friend = p[2]}
    /\ lastCall = [a \in Addrs |-> NoCall]
    /\ verified = {}
    /\ lastFinal = [e \in EventIds |-> NoFinal]
    /\ mintedTo = [t \in TokenIds |-> Zero]
    /\ paused = {}

NextLevel ==
    \/ \E s \in Crew, f \in Crew : AttestFriend(s, f)
    \/ \E s \in Crew, f \in Crew : RemoveFriend(s, f)
    \/ AdvanceTime(ACTION_COOLDOWN)

SpecLevel == InitLevel /\ [][NextLevel]_vars

\* the NFT contract with its owner as coreContract: tokens minted straight to
\* the users, made public and handed on
NextFeed ==
    \/ SetCoreContract(Owner, Owner)
    \/ \E to \in Users, e \in EventIds : NFTMintMemoryNFT(Owner, to, e, "QmX", <<>>)
    \/ \E s \in Users, t \in TokenIds : MakeMemoryPublic(s, t)
    \/ \E s \in Crew, to \in Crew, t \in TokenIds : TransferFrom(s, to, t)

SpecFeed == Init /\ [][NextFeed]_vars

\* ======================================================================
\* Claims
\* ======================================================================

\* ------------------------------------------------------------------ C1
\* C1: mutual attestation. For all accounts a, b:
\*   - while a's attestation of b stands (a has attested b and not removed b
\*     since), friendships[a][b] records friend b;
\*   - if only a has ever attested b (b never attested a), neither record is mutual;
\*   - once both attestations stand, both records are mutual, whichever came first;
\*   - a record is mutual only if each of the two has successfully attested the
\*     other at some earlier point.
C1_MutualAttestation ==
    \A a \in Accounts, b \in Accounts :
        /\ <<a, b>> \in liveAttested => friendships[a][b].friend = b
        /\ (<<a, b>> \in everAttested /\ <<b, a>> \notin everAttested) =>
               (~friendships[a][b].isMutual /\ ~friendships[b][a].isMutual)
        /\ (<<a, b>> \in liveAttested /\ <<b, a>> \in liveAttested) =>
               (friendships[a][b].isMutual /\ friendships[b][a].isMutual)
        /\ friendships[a][b].isMutual =>
               (<<a, b>> \in everAttested /\ <<b, a>> \in everAttested)

\* a pair attested in both directions and mutual, beside a one-sided attestation
C1_Witness ==
    \E a \in Users, b \in Users, c \in Users :
        /\ a # b /\ b # c /\ a # c
        /\ <<a, b>> \in liveAttested /\ <<b, a>> \in liveAttested
        /\ friendships[a][b].isMutual /\ friendships[b][a].isMutual
        /\ <<a, c>> \in liveAttested /\ <<c, a>> \notin everAttested
        /\ friendships[a][c].friend = c /\ ~friendships[a][c].isMutual

\* ------------------------------------------------------------------ C2
\* inputs the checks are probed with
\* <<name, scheduledTime, radius>>: one valid choice, and each check failing alone
ProbeParams  == {<<"picnic", now + ONE_HOUR + 1, 100>>,
                 <<"",       now + ONE_HOUR + 1, 100>>,
                 <<"picnic", now + ONE_HOUR,     100>>,
                 <<"picnic", now + ONE_HOUR + 1, 0>>,
                 <<"picnic", now + ONE_HOUR + 1, MAX_RADIUS + 1>>}
ProbeInvites == UNION {[1 .. n -> Accounts] : n \in 1 .. 2}
ProbeEvents  == 1 .. MaxEvents + 1     \* the last id is never handed out

bothAttested(a, b) == <<a, b>> \in everAttested /\ <<b, a>> \in everAttested

\* C2: createEvent never succeeds when an invited address and the sender have not
\* both attested each other (or the sender's record of it is not mutual); when the
\* call passes the rate limit and the checks on name, time, list length and radius,
\* it reverts with 'All friends must be mutually attested'. Every stored event's
\* invitees and its creator had all attested each other.
C2_MutualInvitees ==
    /\ \A s \in Accounts, inv \in ProbeInvites, p \in ProbeParams :
          (\E i \in 1 .. Len(inv) :
               ~bothAttested(s, inv[i]) \/ ~friendships[s][inv[i]].isMutual) =>
             /\ createEventResult(s, p[1], p[2], p[3], inv) # "ok"
             /\ (/\ now >= lastCall[s] + ACTION_COOLDOWN
                 /\ p[1] # "" /\ p[2] > now + ONE_HOUR
                 /\ p[3] >= 1 /\ p[3] <= MAX_RADIUS) =>
                    createEventResult(s, p[1], p[2], p[3], inv) =
                        "All friends must be mutually attested"
    /\ \A e \in 1 .. eventIds :
          /\ events[e].creator \in Accounts
          /\ \A i \in 1 .. Len(events[e].invitedFriends) :
                bothAttested(events[e].creator, events[e].invitedFriends[i])

\* an event exists, and its creator, free to act, is refused a list that names a
\* mutual friend and the stranger
C2_Witness ==
    /\ eventIds >= 1
    /\ \E s \in Crew, f \in Crew :
          /\ friendships[s][f].isMutual
          /\ events[1].creator = s
          /\ createEventResult(s, "picnic", now + ONE_HOUR + 1, 100, <<f, Stranger>>) =
                 "All friends must be mutually attested"

\* ------------------------------------------------------------------ C3
\* the tokens ever minted to u for event e
mintedFor(e, u) ==
    {t \in 1 .. tokenIds : mintedTo[t] = u /\ memoryNFTs[t].eventId = e}

ProbeCrews == {<<>>, <<"u1">>, <<"u1", "u2">>}

\* C3: one NFT per user per event. For every event e and user u at most one token
\* has ever been minted to u for e. Once one has, whoever holds it now, no mint to
\* u for e succeeds: the NFT contract answers its coreContract with 'User already
\* has NFT for this event', which is what TouchGrassCore.mintMemoryNFT(e) sent by u
\* reverts with while the NFT contract's coreContract is the core. And
\* eventToUserToken[e][u], once non-zero, never changes.
C3_OneNFTPerUserPerEvent ==
    /\ [](\A e \in EventIds, u \in Accounts :
            /\ Cardinality(mintedFor(e, u)) <= 1
            /\ mintedFor(e, u) # {} =>
                 /\ eventToUserToken[e][u] \in mintedFor(e, u)
                 /\ coreMintResult(u, e) # "ok"
                 /\ \A crew \in ProbeCrews :
                       nftMintResult(coreContract, u, e, crew) =
                           "User already has NFT for this event"
                 /\ (/\ coreContract = CoreAddr /\ nftContract = NFTAddr
                     /\ lastFinal[e] # NoFinal
                     /\ \E i \in 1 .. Len(eventAttendees[e]) : eventAttendees[e][i] = u) =>
                        coreMintResult(u, e) = "User already has NFT for this event")
    /\ [][\A e \in EventIds, u \in Accounts :
            eventToUserToken[e][u] # 0 =>
                eventToUserToken'[e][u] = eventToUserToken[e][u]]_vars

\* u minted a token for e through the core, gave it away, and is refused a second
C3_Witness ==
    \E e \in EventIds, u \in Crew, t \in TokenIds :
        /\ t \in mintedFor(e, u)
        /\ memoryNFTs[t].baseIPFSHash = events[e].ipfsHash
        /\ tokenOwner[t] # u
        /\ coreMintResult(u, e) = "User already has NFT for this event"

\* ------------------------------------------------------------------ C4
hasProof(e, u) ==
    /\ proofAt(e, u).user = u
    /\ \E i \in 1 .. Len(attendeesAt(e)) : attendeesAt(e)[i] = u

finalized(e) == e \in EventIds /\ lastFinal[e] # NoFinal /\ events[e].ipfsHash # ""

\* C4: TouchGrassCore.mintMemoryNFT(e) sent by u succeeds only if the NFT contract
\* is set, e's memory has been finalized and u has a recorded location proof for e;
\* it reverts with 'NFT contract not set', 'Memory not finalized', 'Location not
\* verified' for the first of these that fails. While the NFT contract's
\* coreContract is the core, every step that mints a token mints it to an account
\* with a proof, for a finalized event, with the NFT contract set in the core.
C4_MintOrdering ==
    /\ [](\A u \in Accounts, e \in ProbeEvents :
            /\ coreMintResult(u, e) = "ok" =>
                   (nftContract # Zero /\ finalized(e) /\ hasProof(e, u))
            /\ nftContract = Zero => coreMintResult(u, e) = "NFT contract not set"
            /\ (nftContract # Zero /\ ~finalized(e)) =>
                   coreMintResult(u, e) = "Memory not finalized"
            /\ (nftContract # Zero /\ finalized(e) /\ ~hasProof(e, u)) =>
                   coreMintResult(u, e) = "Location not verified")
    /\ [][(tokenIds' # tokenIds /\ coreContract = CoreAddr) =>
            LET t == tokenIds'
                u == mintedTo'[t]
                e == memoryNFTs'[t].eventId
            IN  /\ t = tokenIds + 1
                /\ nftContract = NFTAddr
                /\ finalized(e)
                /\ hasProof(e, u)
                /\ tokenOwner'[t] = u
                /\ memoryNFTs'[t].baseIPFSHash = events[e].ipfsHash]_vars

\* a token minted through the core to an attendee of a finalized event, while
\* another account is refused for want of a location proof
C4_Witness ==
    \E t \in TokenIds, v \in Accounts :
        /\ t <= tokenIds /\ coreContract = CoreAddr
        /\ finalized(memoryNFTs[t].eventId)
        /\ hasProof(memoryNFTs[t].eventId, mintedTo[t])
        /\ memoryNFTs[t].baseIPFSHash = events[memoryNFTs[t].eventId].ipfsHash
        /\ coreMintResult(v, memoryNFTs[t].eventId) = "Location not verified"

\* ------------------------------------------------------------------ C5
\* a step in which a call of u to one of the rate-limited functions succeeds
rateLimitedCallBy(u) ==
    \/ \E f \in Users : AttestFriend(u, f)
    \/ \E fl \in BatchLists : Len(fl) > 0 /\ BatchAttestFriends(u, fl)
    \/ \E n \in Names, inv \in InviteLists :
          CreateEvent(u, n, now + ONE_HOUR + 1, 0, 0, 100, inv)
    \/ \E e \in EventIds : VerifyLocationSimple(u, e, 0, 0)

GeoOffsets == {0, 9, 10, 810, 900, 901, 990, 9009, 9010,
               -9, -10, -810, -900, -901, -990, -9009, -9010}

\* quotient of a by b > 0 rounded toward zero, from magnitude and sign
towardZero(a, b) ==
    LET mag == IF a < 0 THEN 0 - a ELSE a
    IN  IF a < 0 THEN 0 - (mag \div b) ELSE mag \div b

\* the formula of the claim for the offsets dlat, dlng and the radius r
insideFormula(dlat, dlng, r) ==
    LET dLat == towardZero(dlat * 111000, 1000000)
        dLng == towardZero(dlng * 111000, 1000000)
    IN  dLat * dLat + dLng * dLng <= r * r

\* the caller passes every check that precedes the geofence test
reachesGeofence(u, e) ==
    /\ now >= lastActionTime[u] + 60
    /\ events[e].isActive
    /\ u \notin Range(eventAttendees[e])
    /\ (u = events[e].creator \/ u \in Range(events[e].invitedFriends))

\* C6: geofence check. For every created event and every offset of the submitted
\* location from its centre (offsets small enough for the int256 arithmetic to
\* be exact), _isWithinGeofence holds exactly when dLat*dLat + dLng*dLng <=
\* radiusMeters*radiusMeters with dLat, dLng the offsets times 111000 divided by
\* 1000000, rounded toward zero. verifyLocationSimple never succeeds outside it;
\* for a caller who passes the earlier checks it succeeds inside and reverts
\* with 'Outside geofence' outside. Every proof verifyLocationSimple has
\* recorded lies inside. The centre is accepted; with radius 100 an offset of
\* 810 is accepted and one of 990 rejected; offsets +d and -d decide alike.
C6_Geofence ==
    \A e \in EventIds :
        (e <= eventIds) =>
            LET ev == events[e]
                lat(d) == ev.centerLat + d
                lng(d) == ev.centerLng + d
            IN  /\ \A dlat \in GeoOffsets, dlng \in GeoOffsets :
                      LET inside == insideFormula(dlat, dlng, ev.radiusMeters)
                      IN  /\ isWithinGeofence(lat(dlat), lng(dlng), ev) <=> inside
                          /\ isWithinGeofence(lat(dlat), lng(dlng), ev)
                                <=> isWithinGeofence(lat(0 - dlat), lng(dlng), ev)
                          /\ isWithinGeofence(lat(dlat), lng(dlng), ev)
                                <=> isWithinGeofence(lat(dlat), lng(0 - dlng), ev)
                          /\ \A u \in Accounts :
                                LET res == verifyLocationSimpleResult(u, e, lat(dlat), lng(dlng))
                                IN  /\ res = "ok" => inside
                                    /\ reachesGeofence(u, e) =>
                                          res = (IF inside THEN "ok" ELSE "Outside geofence")
                /\ isWithinGeofence(ev.centerLat, ev.centerLng, ev)
                /\ ev.radiusMeters = 100 =>
                      /\ isWithinGeofence(lat(810), ev.centerLng, ev)
                      /\ isWithinGeofence(ev.centerLat, lng(-810), ev)
                      /\ ~isWithinGeofence(lat(990), ev.centerLng, ev)
                      /\ ~isWithinGeofence(ev.centerLat, lng(-990), ev)
                /\ \A u \in Users :
                      <<e, u>> \in verified =>
                          insideFormula(locationProofs[e][u].lat - ev.centerLat,
                                        locationProofs[e][u].lng - ev.centerLng,
                                        ev.radiusMeters)

\* radius 100 around the centre of the tests: one attendee has verified 901
\* micro-degrees south of it, where the quotient -100.011 rounds to -100, and
\* the other is refused 990 micro-degrees north
C6_Witness ==
    \E e \in EventIds, u \in Crew, v \in Crew :
        /\ events[e].radiusMeters = 100
        /\ events[e].centerLat = 40748817
        /\ <<e, u>> \in verified
        /\ locationProofs[e][u].lat = events[e].centerLat - 901
        /\ reachesGeofence(v, e)
        /\ verifyLocationSimpleResult(v, e, events[e].centerLat + 990,
                                      events[e].centerLng) = "Outside geofence"

\* ------------------------------------------------------------------ C7
\* the creator of e or an address in its invitedFriends
creatorOrInvited(u, e) ==
    \/ u = eventAt(e).creator
    \/ u \in Range(eventAt(e).invitedFriends)

\* C7: only the creator of event e or an address in its invitedFriends can
\* verify a location for e. A call by anyone else never succeeds, whatever the
\* coordinates, the centre of the geofence included; it reverts with 'Not
\* authorized' when the checks before the authorization pass (cooldown over,
\* event active, caller not yet marked as attended). Everyone whose
\* verifyLocationSimple has succeeded for e is its creator or invited.
C7_OnlyAuthorizedVerify ==
    /\ \A e \in ProbeEvents, u \in Accounts :
          ~creatorOrInvited(u, e) =>
              \A d \in {0, 810, 990} :
                  LET res == verifyLocationSimpleResult(u, e, eventAt(e).centerLat + d,
                                                        eventAt(e).centerLng)
                  IN  /\ res # "ok"
                      /\ ( /\ now >= lastActionTime[u] + 60
                           /\ eventAt(e).isActive
                           /\ u \notin Range(attendeesAt(e)) ) => res = "Not authorized"
    /\ \A p \in verified : creatorOrInvited(p[2], p[1])

\* an event is active with one attendee verified, and the stranger, standing at
\* its centre with no cooldown running, is refused
C7_Witness ==
    \E e \in EventIds, u \in Crew :
        /\ <<e, u>> \in verified
        /\ events[e].isActive
        /\ ~creatorOrInvited(Stranger, e)
        /\ Stranger \notin Range(eventAttendees[e])
        /\ verifyLocationSimpleResult(Stranger, e, events[e].centerLat,
                                      events[e].centerLng) = "Not authorized"

\* ------------------------------------------------------------------ C8
noDuplicates(seq) == \A i \in 1 .. Len(seq), j \in 1 .. Len(seq) : i # j => seq[i] # seq[j]

\* C8: a user verifies a location for an event at most once. eventAttendees[e]
\* never holds an address twice. For a user already in eventAttendees[e], put
\* there by verifyLocationSimple or by debugAddAttendee, verifyLocationSimple
\* for e never succeeds again; it reverts with 'Already verified location' when
\* the checks before it pass (cooldown over, event active).
C8_VerifyAtMostOnce ==
    /\ \A e \in EventIds : noDuplicates(eventAttendees[e])
    /\ \A e \in EventIds, u \in Accounts :
          (u \in Range(eventAttendees[e]) \/ <<e, u>> \in verified) =>
              \A d \in {0, 990} :
                  LET res == verifyLocationSimpleResult(u, e, events[e].centerLat + d,
                                                        events[e].centerLng)
                  IN  /\ res # "ok"
                      /\ (now >= lastActionTime[u] + 60 /\ events[e].isActive) =>
                            res = "Already verified location"

\* one user has verified and waited out the cooldown, another was added by
\* debugAddAttendee; the event is active and both are refused a second proof
C8_Witness ==
    \E e \in EventIds, u \in Crew, v \in Users :
        /\ <<e, u>> \in verified
        /\ v \in Range(eventAttendees[e]) /\ <<e, v>> \notin verified
        /\ now >= lastActionTime[u] + 60
        /\ verifyLocationSimpleResult(u, e, 0, 0) = "Already verified location"
        /\ verifyLocationSimpleResult(v, e, 0, 0) = "Already verified location"

\* ------------------------------------------------------------------ C9
ProbeHashes == Hashes \cup {""}

\* C9: while fewer than 2 attendees are recorded for an event, finalizeMemory
\* never succeeds, and reverts with 'Need at least 2 attendees' when called by
\* the creator with a non-empty hash; an event with a non-empty ipfsHash has at
\* least 2 recorded attendees.
C9_FinalizeNeedsTwoAttendees ==
    /\ \A e \in ProbeEvents, s \in Accounts, h \in ProbeHashes :
          Len(attendeesAt(e)) < 2 =>
              /\ finalizeMemoryResult(s, e, h) # "ok"
              /\ (s = eventAt(e).creator /\ h # "") =>
                    finalizeMemoryResult(s, e, h) = "Need at least 2 attendees"
    /\ \A e \in EventIds : events[e].ipfsHash # "" => Len(eventAttendees[e]) >= 2

\* the creator has finalized an event that has exactly two attendees
C9_Witness ==
    \E e \in EventIds :
        /\ lastFinal[e] # NoFinal
        /\ events[e].ipfsHash # ""
        /\ Len(eventAttendees[e]) = 2

\* ----------------------------------------------------------------- C10
\* C10: finalizeMemory sent by anyone but the creator of the event, for any
\* event id (one never created included) and any hash, reverts with 'Only
\* creator can finalize'; sent by the creator with an empty hash it reverts with
\* 'IPFS hash required'. An event's ipfsHash is empty until a finalizeMemory has
\* succeeded for it, and from then on it is the hash supplied to the last
\* successful finalizeMemory, which the event's creator sent.
C10_OnlyCreatorFinalizes ==
    /\ \A e \in ProbeEvents, s \in Accounts, h \in ProbeHashes :
          /\ s # eventAt(e).creator =>
                finalizeMemoryResult(s, e, h) = "Only creator can finalize"
          /\ (s = eventAt(e).creator /\ h = "") =>
                finalizeMemoryResult(s, e, h) = "IPFS hash required"
    /\ \A e \in EventIds :
          IF lastFinal[e] = NoFinal
          THEN events[e].ipfsHash = ""
          ELSE /\ events[e].ipfsHash = lastFinal[e].hash
               /\ lastFinal[e].hash # ""
               /\ lastFinal[e].sender = events[e].creator
               /\ events[e].creator # Zero

\* the creator has finalized with "QmB"; the invited attendee and the owner are
\* refused, and so is the creator with an empty hash
C10_Witness ==
    \E e \in EventIds, v \in Crew :
        /\ lastFinal[e].hash = "QmB"
        /\ events[e].ipfsHash = "QmB"
        /\ v # events[e].creator
        /\ v \in Range(events[e].invitedFriends)
        /\ v \in Range(eventAttendees[e])
        /\ finalizeMemoryResult(v, e, "QmA") = "Only creator can finalize"
        /\ finalizeMemoryResult(Owner, e, "QmA") = "Only creator can finalize"
        /\ finalizeMemoryResult(events[e].creator, e, "") = "IPFS hash required"

\* ----------------------------------------------------------------- C11
\* C11: while events[e].isActive is false, for an event cancelled or paused as
\* for an id never created, verifyLocationSimple(e, ..) succeeds for no sender
\* and no coordinates, and reverts with 'Event not active' whenever the sender's
\* cooldown is over (the rate limit is checked first). cancelEvent succeeds only
\* for the event's creator; anyone else gets 'Only creator can cancel'.
C11_InactiveEventRefusesVerify ==
    /\ \A e \in ProbeEvents, u \in Accounts :
          ~eventAt(e).isActive =>
              \A d \in {0, 990} :
                  LET res == verifyLocationSimpleResult(u, e, eventAt(e).centerLat + d,
                                                        eventAt(e).centerLng)
                  IN  /\ res # "ok"
                      /\ now >= lastActionTime[u] + 60 => res = "Event not active"
    /\ \A e \in ProbeEvents, s \in Accounts :
          cancelEventResult(s, e) =
              (IF s = eventAt(e).creator THEN "ok" ELSE "Only creator can cancel")

\* a created event is inactive with nobody attending yet, and its invited
\* friend, cooldown over and standing at the centre, is refused; so is the
\* stranger's cancelEvent
C11_Witness ==
    \E e \in EventIds, u \in Crew :
        /\ e <= eventIds
        /\ ~events[e].isActive
        /\ u \in Range(events[e].invitedFriends)
        /\ u \notin Range(eventAttendees[e])
        /\ now >= lastActionTime[u] + 60
        /\ verifyLocationSimpleResult(u, e, 0, 0) = "Event not active"
        /\ cancelEventResult(Stranger, e) = "Only creator can cancel"

\* ----------------------------------------------------------------- C12
\* the list that names f n times
copies(f, n) == [i \in 1 .. n |-> f]

\* C12: createEvent succeeds only with 1 to 6 invited friends. For a sender
\* whose cooldown is over, with a valid name, time and radius: an empty list
\* reverts with 'Need at least 1 friend', a list of 7 or 8 with 'Too many
\* friends' (mutual or not), and a list of 1 to 6 entries naming a friend the
\* sender's record holds as mutual is accepted. Every stored event has an invite
\* list of length 1..6. With no owner debug calls, the attendees of an event are
\* distinct accounts among its creator and its invited friends, hence at most
\* one more than the length of the invite list, at most 7.
C12_InviteListLength ==
    /\ \A s \in Accounts, f \in Accounts, n \in 0 .. 8 :
          LET res == createEventResult(s, "picnic", now + 3601, 100, copies(f, n))
          IN  /\ res = "ok" => (n >= 1 /\ n <= 6)
              /\ now >= lastActionTime[s] + 60 =>
                    /\ n = 0 => res = "Need at least 1 friend"
                    /\ n >= 7 => res = "Too many friends"
                    /\ (n >= 1 /\ n <= 6 /\ friendships[s][f].isMutual) => res = "ok"
    /\ \A s \in Accounts, inv \in ProbeInvites :
          createEventResult(s, "picnic", now + 3601, 100, inv) \notin
              {"Need at least 1 friend", "Too many friends"}
    /\ \A e \in 1 .. eventIds :
          LET inv == events[e].invitedFriends
              att == eventAttendees[e]
          IN  /\ Len(inv) >= 1 /\ Len(inv) <= 6
              /\ Range(att) \subseteq ({events[e].creator} \cup Range(inv))
              /\ Cardinality(Range(att)) = Len(att)
              /\ Len(att) <= 1 + Cardinality(Range(inv))
              /\ Len(att) <= 7

\* an event stored with six invitations, attended by its creator and the
\* invited friend; the friend, cooldown over, is refused a list of none and a
\* list of seven, and would be accepted with six
C12_Witness ==
    \E e \in EventIds, s \in Crew, f \in Crew :
        /\ e <= eventIds
        /\ events[e].creator = s
        /\ events[e].invitedFriends = copies(f, 6)
        /\ Len(eventAttendees[e]) = 2
        /\ createEventResult(f, "picnic", now + 3601, 100, copies(s, 0)) =
              "Need at least 1 friend"
        /\ createEventResult(f, "picnic", now + 3601, 100, copies(s, 7)) =
              "Too many friends"
        /\ createEventResult(f, "picnic", now + 3601, 100, copies(s, 6)) = "ok"

\* ----------------------------------------------------------------- C13
\* lists of one to three friends
ProbeBatches == UNION {[1 .. n -> Users] : n \in 1 .. 3}

\* C13 (refuted by the code): batchAttestFriends(friends) sent by u, cooldown
\* over, with a list of n >= 1 addresses none of which is u or the zero address,
\* succeeds and leaves friendships[u][f].friend = f for every f of the list.
\* The second attestFriend of the loop finds lastActionTime[u] = block.timestamp
\* and reverts with 'Action rate limited': the call succeeds for n = 1 only.
C13_BatchAttestSucceeds ==
    \A u \in Users, fl \in ProbeBatches :
        ( /\ now >= lastActionTime[u] + 60
          /\ \A i \in 1 .. Len(fl) : fl[i] # u /\ fl[i] # Zero ) =>
            /\ batchAttestFriendsResult(u, fl) = "ok"
            /\ \A i \in 1 .. Len(fl) : batchOutcome(u, fl).fs[u][fl[i]].friend = fl[i]

levelTable(c) ==
    IF c = 0 THEN 1
    ELSE IF c \in 1 .. 2 THEN 2
    ELSE IF c \in 3 .. 6 THEN 3
    ELSE IF c \in 7 .. 14 THEN 4
    ELSE 5

\* C15: getFriendshipLevel(u, f) is 0 when friendships[u][f] is not mutual and
\* otherwise 1, 2, 3, 4, 5 for an interaction count of 0, 1-2, 3-6, 7-14, 15 or
\* more; it lies in 0..5; of two mutual records the one with the larger
\* interaction count never has the smaller level.
C15_FriendshipLevel ==
    \A u \in Accounts, f \in Accounts :
        LET r == friendships[u][f]
        IN  /\ getFriendshipLevel(u, f) \in 0 .. 5
            /\ ~r.isMutual => getFriendshipLevel(u, f) = 0
            /\ r.isMutual => getFriendshipLevel(u, f) = levelTable(r.interactionCount)
            /\ \A x \in Accounts, y \in Accounts :
                  ( /\ r.isMutual /\ friendships[x][y].isMutual
                    /\ r.interactionCount <= friendships[x][y].interactionCount ) =>
                      getFriendshipLevel(u, f) <= getFriendshipLevel(x, y)

\* two mutual records on either side of the last threshold, at levels 4 and 5
C15_Witness ==
    /\ friendships["u1"]["u2"].isMutual /\ friendships["u1"]["u2"].interactionCount = 14
    /\ friendships["u2"]["u1"].isMutual /\ friendships["u2"]["u1"].interactionCount = 15
    /\ getFriendshipLevel("u1", "u2") = 4
    /\ getFriendshipLevel("u2", "u1") = 5

\* ----------------------------------------------------------------- C16
\* C16: for a token t that exists, makeMemoryPublic(t) succeeds for the current
\* owner of t and reverts with 'Only owner can make public' for every other
\* caller, the account it was minted to included once t has been transferred.
\* isPublic of t turns true only in a step that is makeMemoryPublic(t) sent by
\* the account owning t before the step, and never turns false.
C16_OnlyOwnerMakesPublic ==
    /\ [](\A t \in 1 .. tokenIds, s \in Accounts :
            makeMemoryPublicResult(s, t) =
                (IF s = tokenOwner[t] THEN "ok" ELSE "Only owner can make public"))
    /\ [][\A t \in TokenIds :
            /\ memoryNFTs[t].isPublic => memoryNFTs'[t].isPublic
            /\ (memoryNFTs'[t].isPublic /\ ~memoryNFTs[t].isPublic) =>
                  /\ t <= tokenIds
                  /\ tokenOwner[t] \in Users
                  /\ tokenOwner'[t] = tokenOwner[t]
                  /\ memoryNFTs' = [memoryNFTs EXCEPT ![t].isPublic = TRUE]]_vars

\* a token not yet public has changed hands: the account it was minted to is
\* refused and its new owner is not; another token has been made public
C16_Witness ==
    \E t \in TokenIds, p \in TokenIds :
        /\ t <= tokenIds /\ p <= tokenIds
        /\ memoryNFTs[p].isPublic
        /\ ~memoryNFTs[t].isPublic
        /\ mintedTo[t] # tokenOwner[t]
        /\ makeMemoryPublicResult(mintedTo[t], t) = "Only owner can make public"
        /\ makeMemoryPublicResult(tokenOwner[t], t) = "ok"

\* ----------------------------------------------------------------- C17
publicSet == {t \in 1 .. tokenIds : memoryNFTs[t].isPublic}

\* the public token ids in ascending order
publicRanked ==
    CHOOSE q \in [1 .. Cardinality(publicSet) -> publicSet] :
        \A i \in DOMAIN q, j \in DOMAIN q : i < j => q[i] < q[j]

\* the ranks offset .. offset+limit-1 of seq, counted from 0
page(seq, offset, limit) ==
    [i \in 1 .. (IF Len(seq) - offset < limit
                 THEN (IF Len(seq) > offset THEN Len(seq) - offset ELSE 0)
                 ELSE limit) |-> seq[offset + i]]

\* the pages (0,k), (k,k), .. (n*k,k) of getPublicMemories one after the other
RECURSIVE pagesFrom(_, _, _)
pagesFrom(j, n, k) ==
    IF j > n THEN <<>>
    ELSE getPublicMemories(j * k, k).tokens \o pagesFrom(j + 1, n, k)

\* C17: getPublicMemories(offset, limit) reverts with 'Limit too high' when
\* limit > 50; otherwise it returns the public token ids of ranks offset ..
\* offset+limit-1 in ascending order of id: fewer when fewer exist, none when
\* offset is at least the number of public tokens. The pages (0,k), (k,k),
\* (2k,k), .. together list every public token once, in order.
C17_PublicMemoriesPages ==
    /\ \A offset \in 0 .. MaxTokens + 1, limit \in {51, 52, 100} :
          getPublicMemories(offset, limit).res = "Limit too high"
    /\ \A offset \in 0 .. MaxTokens + 1, limit \in (0 .. MaxTokens + 1) \cup {49, 50} :
          /\ getPublicMemories(offset, limit).res = "ok"
          /\ getPublicMemories(offset, limit).tokens = page(publicRanked, offset, limit)
          /\ offset >= Cardinality(publicSet) =>
                getPublicMemories(offset, limit).tokens = <<>>
    /\ \A k \in 1 .. MaxTokens + 1 : pagesFrom(0, MaxTokens, k) = publicRanked

\* three tokens, the first and the last public: the page of rank 1 holds the
\* last token alone and the next page is empty
C17_Witness ==
    /\ tokenIds = 3
    /\ publicSet = {1, 3}
    /\ getPublicMemories(0, 1).tokens = <<1>>
    /\ getPublicMemories(1, 1).tokens = <<3>>
    /\ getPublicMemories(2, 1).tokens = <<>>
    /\ getPublicMemories(0, 50).tokens = <<1, 3>>

\* ------------------------------------------------------- paymaster alone
\* The constructor takes any two addresses as the callers sponsorGas accepts: the
\* deployment script passes the two contracts, a relayer set-up passes an account.
PmWirings == {<<CoreAddr, NFTAddr>>, <<Owner, NFTAddr>>, <<CoreAddr, "u3">>}
GasUsed   == 0 .. 2
GasPrices == 0 .. 2

InitPay ==
    /\ \E w \in PmWirings : InitPaymaster(w[1], w[2])
    /\ now = ACTION_COOLDOWN
    /\ friendships = [a \in Addrs |-> [b \in Addrs |-> NoFriendship]]
    /\ lastActionTime = [a \in Addrs |-> 0]
    /\ eventIds = 0
    /\ events = [e \in EventIds |-> NoEvent]
    /\ locationProofs = [e \in EventIds |-> [a \in Addrs |-> NoProof]]
    /\ eventAttendees = [e \in EventIds |-> <<>>]
    /\ hasAttended = [e \in EventIds |-> [a \in Addrs |-> FALSE]]
    /\ userEvents = [a \in Addrs |-> <<>>]
    /\ userProfiles = [a \in Addrs |-> NoProfile]
    /\ nftContract = Zero
    /\ trustedGPSOracle = Owner
    /\ InitServer(FALSE)
    /\ coreContract = Zero
    /\ tokenIds = 0
    /\ tokenOwner = [t \in TokenIds |-> Zero]
    /\ memoryNFTs = [t \in TokenIds |-> NoMemory]
    /\ eventToUserToken = [e \in EventIds |-> [a \in Addrs |-> 0]]
    /\ everAttested = {}
    /\ liveAttested = {}
    /\ lastCall = [a \in Addrs |-> NoCall]
    /\ verified = {}
    /\ lastFinal = [e \in EventIds |-> NoFinal]
    /\ mintedTo = [t \in TokenIds |-> Zero]
    /\ paused = {}

NextPay ==
    \/ \E s \in Accounts, u \in Users, g \in GasUsed, p \in GasPrices :
            SponsorGas(s, u, g, p)
    \/ \E s \in Accounts, v \in 1 .. MaxFunds : AddFunds(s, v)
    \/ \E s \in Users, v \in 1 .. MaxFunds : Receive(s, v)
    \/ \E s \in Accounts, a \in 0 .. MaxFunds : WithdrawFunds(s, a)
    \/ \E s \in Accounts, m \in 0 .. MaxCap : UpdateSponsorshipParams(s, m)

SpecPay == InitPay /\ [][NextPay]_vars

\* C18 (as stated): in every reachable state every user's userSponsoredGas is at
\* most the current maxSponsorshipPerUser, and a sponsorGas call whose refund
\* exceeds the cap or the balance does not succeed.
C18_SponsoredWithinCurrentCap ==
    /\ \A u \in Addrs : userSponsoredGas[u] <= maxSponsorshipPerUser
    /\ \A s \in Accounts, u \in Users, g \in GasUsed, p \in GasPrices :
          (g * p > maxSponsorshipPerUser \/ g * p > pmBalance)
              => sponsorGasResult(s, u, g, p) # "ok"

\* C18 (amended): a user is refunded at most once, and what they were refunded
\* is at most the maxSponsorshipPerUser that was in force at that call (the
\* owner may have lowered the cap since); a user never sponsored has received
\* nothing; and a sponsorGas call whose refund exceeds the current cap or the
\* balance does not succeed, whoever sends it.
C18_RefundsCapped ==
    /\ \A u \in Addrs :
          IF sponsoredUnder[u] = NoCall
          THEN userSponsoredGas[u] = 0 /\ ~hasReceivedSponsorship[u]
          ELSE userSponsoredGas[u] <= sponsoredUnder[u] /\ hasReceivedSponsorship[u]
    /\ \A u \in Addrs : hasReceivedSponsorship[u] =>
          \A s \in Accounts, g \in GasUsed, p \in GasPrices :
              sponsorGasResult(s, u, g, p) # "ok"
    /\ \A s \in Accounts, u \in Users, g \in GasUsed, p \in GasPrices :
          (g * p > maxSponsorshipPerUser \/ g * p > pmBalance)
              => sponsorGasResult(s, u, g, p) # "ok"

\* a user was refunded the whole cap then in force, and the cap is lower now
C18_Witness ==
    \E u \in Users :
        /\ hasReceivedSponsorship[u]
        /\ userSponsoredGas[u] > 0
        /\ userSponsoredGas[u] = sponsoredUnder[u]
        /\ maxSponsorshipPerUser < userSponsoredGas[u]

\* C19: while an event is paused (pauseEvent was called for it and it has not
\* been set active again), no call of verifyLocationSimple, finalizeMemory or
\* mintMemoryNFT for it succeeds, whoever sends it.
C19_PausedEventRefusesAll ==
    \A e \in paused, s \in Accounts :
        /\ verifyLocationSimpleResult(s, e, 0, 0) # "ok"
        /\ finalizeMemoryResult(s, e, "QmA") # "ok"
        /\ coreMintResult(s, e) # "ok"

\* C20: every location proof recorded by verifyLocationSimple carries a
\* signature, the one of the GPS oracle that the contract verified over the
\* submitted location; a signature is 65 bytes, never the empty byte string.
C20_ProofCarriesOracleSignature ==
    \A p \in verified : proofAt(p[1], p[2]).signature # ""

\* ----------------------------------------------------------------- C21
\* the cooldown the README states, in seconds
DOCUMENTED_COOLDOWN == 30

\* C21: once 30 seconds have elapsed since u's previous successful rate-limited
\* call, u's next attestFriend, createEvent or verifyLocationSimple is not
\* refused by the rate limit, and an attestFriend of another account succeeds.
C21_ThirtySecondCooldown ==
    \A u \in Accounts :
        (lastCall[u] # NoCall /\ now >= lastCall[u] + DOCUMENTED_COOLDOWN) =>
            /\ \A f \in Accounts \ {u} : attestFriendResult(u, f) = "ok"
            /\ \A inv \in ProbeInvites, p \in ProbeParams :
                  createEventResult(u, p[1], p[2], p[3], inv) # "Action rate limited"
            /\ \A e \in ProbeEvents :
                  verifyLocationSimpleResult(u, e, 0, 0) # "Action rate limited"

\* ----------------------------------------------------------------- C22
\* The deployed suite: the paymaster constructed with the addresses of the core
\* and NFT contracts (Init), the accounts sending transactions to the three
\* contracts. Neither the core nor the NFT contract contains a call to the
\* paymaster, so every sponsorGas call that reaches it is sent by an account.
NextSuite ==
    \/ \E s \in Crew, f \in Crew : AttestFriend(s, f)
    \/ \E s \in Crew, n \in Names, inv \in InviteLists :
          CreateEvent(s, n, now + ONE_HOUR + 1, 0, 0, 100, inv)
    \/ \E s \in Crew, e \in EventIds : VerifyLocationSimple(s, e, 0, 0)
    \/ SetNFTContract(Owner, NFTAddr)
    \/ SetCoreContract(Owner, CoreAddr)
    \/ \E s \in Accounts, v \in 1 .. MaxFunds : AddFunds(s, v)
    \/ \E s \in Users, v \in 1 .. MaxFunds : Receive(s, v)
    \/ \E s \in Accounts, a \in 0 .. MaxFunds : WithdrawFunds(s, a)
    \/ \E s \in Accounts, m \in 0 .. MaxCap : UpdateSponsorshipParams(s, m)
    \/ AdvanceTime(ACTION_COOLDOWN)

SpecSuite == Init /\ [][NextSuite]_vars

\* C22: in the deployed suite, for a user who has never received sponsorship,
\* while the paymaster holds at least maxSponsorshipPerUser (more than nothing),
\* some sponsorGas call for that user succeeds: there is a sender and a refund
\* for which all of sponsorGas's checks pass.
C22_FirstTimeUserCanBeSponsored ==
    \A u \in Users :
        (~hasReceivedSponsorship[u] /\ maxSponsorshipPerUser > 0
            /\ pmBalance >= maxSponsorshipPerUser) =>
                \E s \in Accounts, g \in GasUsed, p \in GasPrices :
                    sponsorGasResult(s, u, g, p) = "ok"

\* ----------------------------------------------------------------- C23
\* the owner's functions of the core contract and of the paymaster, every
\* account trying them, next to the users' event functions
Oracles == {Owner, "u3"}

NextAdmin ==
    \/ \E s \in Crew, f \in Crew : AttestFriend(s, f)
    \/ \E s \in Crew, n \in Names, inv \in InviteLists :
          CreateEvent(s, n, now + ONE_HOUR + 1, 0, 0, 100, inv)
    \/ \E s \in Users, e \in EventIds : VerifyLocationSimple(s, e, 0, 0)
    \/ \E s \in Accounts, e \in EventIds : CancelEvent(s, e)
    \/ \E s \in Accounts, e \in EventIds : PauseEvent(s, e)
    \/ \E s \in Accounts, e \in EventIds, b \in BOOLEAN : DebugSetEventActive(s, e, b)
    \/ \E s \in Accounts, e \in EventIds, a \in Crew : DebugAddAttendee(s, e, a)
    \/ \E s \in Accounts, o \in Oracles : SetTrustedGPSOracle(s, o)
    \/ \E s \in Accounts : SetNFTContract(s, NFTAddr)
    \/ \E s \in Accounts : AddFunds(s, MaxFunds)
    \/ \E s \in Accounts : WithdrawFunds(s, MaxFunds)
    \/ \E s \in Accounts : UpdateSponsorshipParams(s, MaxCap)
    \/ AdvanceTime(ACTION_COOLDOWN)

SpecAdmin == Init /\ [][NextAdmin]_vars

NotOwnerMsg == "Ownable: caller is not the owner"

\* C23: pauseEvent, debugSetEventActive, debugAddAttendee, setTrustedGPSOracle
\* and setNFTContract of the core contract and addFunds, withdrawFunds and
\* updateSponsorshipParams of the paymaster revert with 'Ownable: caller is not
\* the owner' for every caller other than the owner, whatever the arguments, and
\* never with that message for the owner. The isActive flag of an existing
\* event changes only in a step of pauseEvent, debugSetEventActive or the
\* cancelEvent of the event's creator, and an account joins an event's attendees
\* only in a step of its own verifyLocationSimple or of debugAddAttendee.
C23_AdminOwnerOnly ==
    /\ [](\A s \in Accounts, e \in ProbeEvents, a \in Addrs, b \in BOOLEAN,
             v \in 0 .. MaxFunds :
            LET results == {pauseEventResult(s, e), debugSetEventActiveResult(s, e, b),
                            debugAddAttendeeResult(s, e, a),
                            setTrustedGPSOracleResult(s, a), setNFTContractResult(s),
                            addFundsResult(s, v), withdrawFundsResult(s, v),
                            updateSponsorshipParamsResult(s, v)}
            IN  IF s # Owner THEN results = {NotOwnerMsg}
                ELSE NotOwnerMsg \notin results)
    /\ [][\A e \in EventIds :
            /\ (e <= eventIds /\ events'[e].isActive # events[e].isActive) =>
                  \/ PauseEvent(Owner, e)
                  \/ \E b \in BOOLEAN : DebugSetEventActive(Owner, e, b)
                  \/ CancelEvent(events[e].creator, e)
            /\ \A a \in Addrs :
                  (~hasAttended[e][a] /\ hasAttended'[e][a]) =>
                      \/ VerifyLocationSimple(a, e, 0, 0)
                      \/ DebugAddAttendee(Owner, e, a)]_vars

\* the owner has paused an event and funded the paymaster; a user who is not the
\* event's creator is refused by every switch on the event and by withdrawFunds,
\* and cancelEvent refuses them too
C23_Witness ==
    \E e \in paused, u \in Users :
        /\ u # events[e].creator
        /\ ~events[e].isActive
        /\ pmBalance > 0
        /\ debugSetEventActiveResult(u, e, TRUE) = NotOwnerMsg
        /\ pauseEventResult(u, e) = NotOwnerMsg
        /\ withdrawFundsResult(u, pmBalance) = NotOwnerMsg
        /\ cancelEventResult(u, e) = "Only creator can cancel"

\* ------------------------------------------------------------ the backend
\* The Express router. A request is a record of what matters to the handlers:
\*   address, other  the account field of the body (userAddress, creator, ..)
\*                   and, for /friendships/attest, friendAddress
\*   key             body.privateKey: "absent", the empty string, the key of
\*                   account u1, or a string that is no private key
\*   flag            body.executeTransaction: "absent", the booleans "true" and
\*                   "false", the string 'false' ("str_false") or another string
\*   fields          whether the route's remaining field validators pass
\*   chain           the outcome of the checks the handler makes on what it reads
\*                   from the contracts: "passes", "refused400", "refused403",
\*                   "throws" (the read fails)
\* The result of a transaction the backend sends is decided by the chain and is
\* not part of the response modelled here.
Keys      == {"absent", "", "key_u1", "garbage"}
Flags     == {"absent", "true", "false", "str_false", "junk"}
BodyAddrs == {"u1", "u2", "notAnAddress"}
ChainOutcomes == {"passes", "refused400", "refused403", "throws"}

\* JavaScript truthiness of the two body fields
truthyKey(key)   == key \notin {"absent", ""}
truthyFlag(flag) == flag \in {"true", "str_false", "junk"}

\* new ethers.Wallet(key).address; a string that is no key makes it throw
validKey(key)    == key = "key_u1"
keyAddress(key)  == "u1"

\* ethers.isAddress
isAddress(a) == a \in Addrs

\* mutant: the private key is accepted in every environment
validatePrivateKeyAnyEnv(key) ==
    IF key = "absent" THEN "ok"
    ELSE IF truthyKey(key) /\ ~validKey(key) THEN "Invalid private key format"
    ELSE "ok"

\* validatePrivateKey: optional() skips an absent field
validatePrivateKey(key) ==
    IF key = "absent" THEN "ok"
    ELSE IF truthyKey(key) /\ ~isLocal THEN "Private key only allowed in local environment"
    ELSE IF truthyKey(key) /\ ~validKey(key) THEN "Invalid private key format"
    ELSE "ok"

\* body('executeTransaction').optional().isBoolean(): the booleans and the
\* strings 'true', 'false', '1', '0' pass
executeFlagValid(flag) == flag \in {"absent", "true", "false", "str_false"}

\* prepareResponse: [mode, executed]
prepareResponse(key, flag) ==
    IF isLocal /\ truthyKey(key) /\ truthyFlag(flag)
    THEN [mode |-> "local_execution", executed |-> TRUE]
    ELSE [mode |-> "transaction_preparation", executed |-> FALSE]

rejected(status) == [status |-> status, mode |-> "none", executed |-> FALSE]
accepted(key, flag) ==
    [status |-> 200, mode |-> prepareResponse(key, flag).mode,
     executed |-> prepareResponse(key, flag).executed]

\* the validator chain shared by the prepare routes, then handleValidationErrors
validationPasses(req) ==
    /\ isAddress(req.address)
    /\ req.fields = "valid"
    /\ validatePrivateKey(req.key) = "ok"
    /\ executeFlagValid(req.flag)

keyMismatch(req) == truthyKey(req.key) /\ keyAddress(req.key) # req.address

\* POST /friendships/attest
friendshipsAttestResponse(req) ==
    IF ~(validationPasses(req) /\ isAddress(req.other)) THEN rejected(400)
    ELSE IF req.address = req.other THEN rejected(400)
    ELSE IF keyMismatch(req) THEN rejected(400)
    ELSE accepted(req.key, req.flag)

\* POST /events/prepare: scheduledTime is validated against the bound computed
\* when the route was registered; the mutual-friendship check is skipped when
\* the contract call fails
eventsPrepareResponse(req) ==
    IF ~(validationPasses(req) /\ req.scheduledTime >= minScheduledTime) THEN rejected(400)
    ELSE IF keyMismatch(req) THEN rejected(400)
    ELSE IF req.chain = "refused400" THEN rejected(400)
    ELSE accepted(req.key, req.flag)

\* POST /friendships/batch-attest, /events/:id/verify-location/prepare,
\* /events/:id/finalize-memory/prepare, /events/:id/mint-nft/prepare and
\* /nfts/:id/make-public/prepare: validators, the key check, the route's checks
\* on the contracts' data, prepareResponse
OtherRoutes == {"friendships/batch-attest", "verify-location/prepare",
                "finalize-memory/prepare", "mint-nft/prepare", "make-public/prepare"}

otherPrepareResponse(req) ==
    IF ~validationPasses(req) THEN rejected(400)
    ELSE IF keyMismatch(req) THEN rejected(400)
    ELSE IF req.chain = "refused400" THEN rejected(400)
    ELSE IF req.chain = "refused403" THEN rejected(403)
    ELSE IF req.chain = "throws" THEN rejected(500)
    ELSE accepted(req.key, req.flag)

\* POST /utils/derive-address
deriveAddressResponse(req) ==
    IF validatePrivateKey(req.key) # "ok" THEN rejected(400)
    ELSE IF ~isLocal THEN rejected(403)
    ELSE IF ~validKey(req.key) THEN rejected(400)
    ELSE [status |-> 200, mode |-> "address", executed |-> FALSE]

\* a request is handled: the response is recorded and, in local execution, the
\* transaction is signed with the key and sent
Handle(req, response) ==
    /\ lastRequest' = req
    /\ lastResponse' = response
    /\ sentTx' = IF response.executed THEN sentTx \cup {req.key} ELSE sentTx
    /\ UNCHANGED <<isLocal, srvClock, minScheduledTime>>
    /\ UNCHANGED chainVars

request(route, a, b, key, flag, fields, chain, t) ==
    [route |-> route, address |-> a, other |-> b, key |-> key, flag |-> flag,
     fields |-> fields, chain |-> chain, scheduledTime |-> t, handledAt |-> srvClock]

PostFriendshipsAttest(a, b, key, flag) ==
    LET req == request("friendships/attest", a, b, key, flag, "valid", "passes", 0)
    IN  Handle(req, friendshipsAttestResponse(req))

PostEventsPrepare(a, key, flag, fields, chain, t) ==
    LET req == request("events/prepare", a, Zero, key, flag, fields, chain, t)
    IN  Handle(req, eventsPrepareResponse(req))

PostOtherPrepare(route, a, key, flag, fields, chain) ==
    LET req == request(route, a, Zero, key, flag, fields, chain, 0)
    IN  Handle(req, otherPrepareResponse(req))

PostDeriveAddress(key) ==
    LET req == request("utils/derive-address", Zero, Zero, key, "absent", "valid",
                       "passes", 0)
    IN  Handle(req, deriveAddressResponse(req))

\* an hour passes on the server
SrvTick ==
    /\ srvClock + ONE_HOUR <= SrvBoot + MaxSrvTicks * ONE_HOUR
    /\ srvClock' = srvClock + ONE_HOUR
    /\ UNCHANGED <<isLocal, minScheduledTime, lastRequest, lastResponse, sentTx>>
    /\ UNCHANGED chainVars

\* the scheduled times a client asks for, around the moment of the request
ScheduledTimes == {srvClock - ONE_HOUR, srvClock - 1, srvClock,
                   srvClock + ONE_HOUR - 1, srvClock + ONE_HOUR, srvClock + 2 * ONE_HOUR}

\* the server started in production or in local mode
InitBackend ==
    /\ \E local \in BOOLEAN : InitServer(local)
    /\ InitPaymaster(CoreAddr, NFTAddr)
    /\ now = ACTION_COOLDOWN
    /\ friendships = [a \in Addrs |-> [b \in Addrs |-> NoFriendship]]
    /\ lastActionTime = [a \in Addrs |-> 0]
    /\ eventIds = 0
    /\ events = [e \in EventIds |-> NoEvent]
    /\ locationProofs = [e \in EventIds |-> [a \in Addrs |-> NoProof]]
    /\ eventAttendees = [e \in EventIds |-> <<>>]
    /\ hasAttended = [e \in EventIds |-> [a \in Addrs |-> FALSE]]
    /\ userEvents = [a \in Addrs |-> <<>>]
    /\ userProfiles = [a \in Addrs |-> NoProfile]
    /\ nftContract = Zero
    /\ trustedGPSOracle = Owner
    /\ coreContract = Zero
    /\ tokenIds = 0
    /\ tokenOwner = [t \in TokenIds |-> Zero]
    /\ memoryNFTs = [t \in TokenIds |-> NoMemory]
    /\ eventToUserToken = [e \in EventIds |-> [a \in Addrs |-> 0]]
    /\ everAttested = {}
    /\ liveAttested = {}
    /\ lastCall = [a \in Addrs |-> NoCall]
    /\ verified = {}
    /\ lastFinal = [e \in EventIds |-> NoFinal]
    /\ mintedTo = [t \in TokenIds |-> Zero]
    /\ paused = {}

\* every route that takes a private key, at the moment the server started
NextBackend ==
    \/ \E a \in BodyAddrs, b \in BodyAddrs, key \in Keys, flag \in Flags :
          PostFriendshipsAttest(a, b, key, flag)
    \/ \E a \in Users \ {"u3"}, key \in Keys, flag \in Flags,
          chain \in {"passes", "refused400"}, t \in {srvClock, srvClock + 2 * ONE_HOUR} :
          PostEventsPrepare(a, key, flag, "valid", chain, t)
    \/ \E route \in OtherRoutes, a \in Users \ {"u3"}, key \in Keys, flag \in Flags,
          fc \in ({"invalid"} \X {"passes"}) \cup ({"valid"} \X ChainOutcomes) :
          PostOtherPrepare(route, a, key, flag, fc[1], fc[2])
    \/ \E key \in Keys : PostDeriveAddress(key)

SpecBackend == InitBackend /\ [][NextBackend]_vars

\* /events/prepare over the hours after the server started
NextSchedule ==
    \/ \E a \in Users \ {"u3"}, key \in Keys, flag \in {"absent", "true"},
          fields \in {"valid", "invalid"}, chain \in {"passes", "refused400"},
          t \in ScheduledTimes :
          PostEventsPrepare(a, key, flag, fields, chain, t)
    \/ SrvTick

SpecSchedule == InitBackend /\ [][NextSchedule]_vars

\* ----------------------------------------------------------------- C24
\* C24: POST /events/prepare answers 400 to every request whose scheduledTime
\* lies before the moment the request is handled, whenever it arrives.
C24_PastEventRejected ==
    (lastRequest.route = "events/prepare"
        /\ lastRequest.scheduledTime < lastRequest.handledAt)
            => lastResponse.status = 400

\* ----------------------------------------------------------------- C28
PrepareRoutes == {"friendships/attest", "events/prepare"} \cup OtherRoutes

\* C28: the backend signs and sends a transaction only in local mode, for a
\* request that carries a private key and has executeTransaction set (present
\* and not the boolean false). Outside local mode it has sent nothing, a
\* request carrying a private key (a non-empty string) is answered 400, and
\* every request a prepare route accepts is answered with prepared transaction
\* data only, mode 'transaction_preparation'.
C28_NoExecutionOutsideLocal ==
    /\ lastResponse.executed =>
          /\ isLocal
          /\ lastRequest.key \notin {"absent", ""}
          /\ lastRequest.flag \notin {"absent", "false"}
          /\ lastRequest.key \in sentTx
    /\ sentTx # {} => isLocal
    /\ (~isLocal /\ lastRequest.route # "none") =>
          /\ lastRequest.key \notin {"absent", ""} => lastResponse.status = 400
          /\ (lastRequest.route \in PrepareRoutes /\ lastResponse.status = 200) =>
                /\ lastResponse.mode = "transaction_preparation"
                /\ ~lastResponse.executed
          /\ lastRequest.route \notin PrepareRoutes => lastResponse.status # 200

\* outside local mode a request with the key of its own address and
\* executeTransaction true has just been refused
C28_Witness ==
    /\ ~isLocal
    /\ lastRequest.route \in PrepareRoutes
    /\ lastRequest.key = "key_u1" /\ lastRequest.address = "u1"
    /\ lastRequest.flag = "true"
    /\ lastRequest.fields = "valid" /\ lastRequest.chain = "passes"
    /\ lastResponse.status = 400
    /\ sentTx = {}

\* ----------------------------------------------------------------- C25
\* createEvent under names, times and radii on both sides of each check
EventNames  == {"", "picnic"}
EventRadii  == {0, 1, 1000, 1001}
EventTimes  == {now + ONE_HOUR, now + ONE_HOUR + 1}

NextCreate ==
    \/ \E s \in Users, f \in Users : AttestFriend(s, f)
    \/ \E s \in Users, n \in EventNames, t \in EventTimes, r \in EventRadii,
          inv \in InviteLists : CreateEvent(s, n, t, 0, 0, r, inv)
    \/ AdvanceTime(ACTION_COOLDOWN)

SpecCreate == Init /\ [][NextCreate]_vars

\* the caller is past the rate limit
cooledDown(u) == lastCall[u] = NoCall \/ now >= lastCall[u] + 60

AvgCounts == {0, 2, 6, 14}
AvgCrews  == {<<"u1", "u2">>, <<"u3", "u2", "u1">>}

mutualRecord(f, c) == [friend |-> f, isMutual |-> TRUE, interactionCount |-> c]

InitAvg ==
    /\ InitPaymaster(CoreAddr, NFTAddr)
    /\ InitServer(FALSE)
    /\ now = 2 * ACTION_COOLDOWN
    /\ \E c12 \in AvgCounts, c13 \in AvgCounts, friends3 \in BOOLEAN :
          /\ friends3 \/ c13 = 0
          /\ friendships = [a \in Addrs |-> [b \in Addrs |->
                IF <<a, b>> \in {<<"u1", "u2">>, <<"u2", "u1">>} THEN mutualRecord(b, c12)
                ELSE IF friends3 /\ <<a, b>> \in {<<"u1", "u3">>, <<"u3", "u1">>}
                     THEN mutualRecord(b, c13)
                ELSE NoFriendship]]
    /\ everAttested = {<<"u1", "u2">>, <<"u2", "u1">>, <<"u1", "u3">>, <<"u3", "u1">>}
    /\ liveAttested = {p \in everAttested : friendships[p[1]][p[2]].friend = p[2]}
    /\ \E crew \in AvgCrews :
          /\ eventAttendees = [e \in EventIds |-> IF e = 1 THEN crew ELSE <<>>]
          /\ hasAttended = [e \in EventIds |-> [a \in Addrs |-> e = 1 /\ a \in Range(crew)]]
          /\ locationProofs = [e \in EventIds |-> [a \in Addrs |->
                IF e = 1 /\ a \in Range(crew)
                THEN [user |-> a, lat |-> 0, lng |-> 0, signature |-> ""]
                ELSE NoProof]]
          /\ verified = {<<1, a>> : a \in Range(crew)}
          /\ userProfiles = [a \in Addrs |->
                [eventsAttended |-> IF a \in Range(crew) THEN 1 ELSE 0,
                 eventsCreated |-> IF a = "u1" THEN 1 ELSE 0]]
    /\ lastActionTime = [a \in Addrs |-> IF a \in Users THEN ACTION_COOLDOWN ELSE 0]
    /\ lastCall = [a \in Addrs |-> IF a \in Users THEN ACTION_COOLDOWN ELSE NoCall]
    /\ eventIds = 1
    /\ events = [e \in EventIds |->
          IF e = 1
          THEN [creator |-> "u1", scheduledTime |-> ACTION_COOLDOWN + ONE_HOUR + 1,
                centerLat |-> 0, centerLng |-> 0, radiusMeters |-> 100,
                isActive |-> TRUE, name |-> "picnic", ipfsHash |-> "QmA",
                invitedFriends |-> <<"u2", "u3">>]
          ELSE NoEvent]
    /\ lastFinal = [e \in EventIds |->
          IF e = 1 THEN [sender |-> "u1", hash |-> "QmA"] ELSE NoFinal]
    /\ userEvents = [a \in Addrs |-> IF a = "u1" THEN <<1>> ELSE <<>>]
    /\ nftContract = NFTAddr
    /\ coreContract = CoreAddr
    /\ trustedGPSOracle = Owner
    /\ tokenIds = 0
    /\ tokenOwner = [t \in TokenIds |-> Zero]
    /\ memoryNFTs = [t \in TokenIds |-> NoMemory]
    /\ eventToUserToken = [e \in EventIds |-> [a \in Addrs |-> 0]]
    /\ mintedTo = [t \in TokenIds |-> Zero]
    /\ paused = {}

NextAvg ==
    \/ \E s \in Crew, e \in EventIds : MintMemoryNFT(s, e)
    \/ \E s \in Crew, t \in TokenIds : UpdateFriendshipLevel(s, t)
    \/ \E s \in Crew, to \in Crew, t \in TokenIds : TransferFrom(s, to, t)
    \/ \E s \in Crew, f \in Crew : RemoveFriend(s, f)

SpecAvg == InitAvg /\ [][NextAvg]_vars

\* the level of user's record of c in the friendship mapping fs, by the table
levelIn(fs, user, c) ==
    IF fs[user][c].isMutual THEN levelTable(fs[user][c].interactionCount) ELSE 0

RECURSIVE sumLevels(_, _, _, _)
sumLevels(fs, user, crew, idx) ==
    IF idx = {} THEN 0
    ELSE LET i == CHOOSE j \in idx : TRUE
         IN  levelIn(fs, user, crew[i]) + sumLevels(fs, user, crew, idx \ {i})

\* the floor average of the non-zero levels of the crew entries other than user
avgLevel(fs, user, crew) ==
    LET idx == {i \in 1 .. Len(crew) : crew[i] # user /\ levelIn(fs, user, crew[i]) > 0}
    IN  IF idx = {} THEN 1 ELSE sumLevels(fs, user, crew, idx) \div Cardinality(idx)

\* the attendee a of e is counted with u at u's mint
countedWith(u, e, a) ==
    a \in Range(eventAttendees[e]) /\ a # u /\ friendships[u][a].isMutual

\* C26: in a step in which mintMemoryNFT(e) of u succeeds, for every attendee a
\* of e other than u whose record friendships[u][a] is mutual, the
\* interactionCount of friendships[u][a] and of friendships[a][u] goes up by
\* exactly 1 and nothing else of them changes; every other friendship record is
\* unchanged; and the friendshipLevel stored in the new token is the average
\* level computed from the counts as they were before the step.
C26_MintCountsInteractions ==
    [][\A u \in Users, e \in EventIds :
          MintMemoryNFT(u, e) =>
              /\ \A a \in Addrs, b \in Addrs :
                    friendships'[a][b] =
                        IF (a = u /\ countedWith(u, e, b)) \/ (b = u /\ countedWith(u, e, a))
                        THEN [friendships[a][b] EXCEPT
                                 !.interactionCount = friendships[a][b].interactionCount + 1]
                        ELSE friendships[a][b]
              /\ memoryNFTs'[tokenIds'].friendshipLevel
                    = avgLevel(friendships, u, eventAttendees[e])]_vars

\* a token was minted at level 2 from a count of 2 that the mint itself raised
\* to 3, the count of level 3
C26_Witness ==
    \E t \in 1 .. tokenIds :
        LET u == mintedTo[t]
            crew == memoryNFTs[t].crewMembers
        IN  \E a \in Range(crew) \ {u} :
                /\ friendships[u][a].isMutual /\ friendships[a][u].isMutual
                /\ friendships[u][a].interactionCount = 3
                /\ friendships[a][u].interactionCount = 3
                /\ memoryNFTs[t].friendshipLevel = 2
                /\ avgLevel(friendships, u, crew) = 3
                /\ tokenIds = 1

\* C27: the friendshipLevel of every existing token is between 1 and 5. A mint
\* stores, and an updateFriendshipLevel leaves stored, the floor average of the
\* non-zero getFriendshipLevel(owner, c) over the crew entries c other than the
\* owner (the account minted to, or the current owner at an update), 1 when
\* there is none; no other step changes a stored level.
C27_StoredLevelIsAverage ==
    /\ [](\A t \in 1 .. tokenIds : memoryNFTs[t].friendshipLevel \in 1 .. 5)
    /\ [][/\ tokenIds' # tokenIds =>
               /\ tokenIds' = tokenIds + 1
               /\ memoryNFTs'[tokenIds'].friendshipLevel
                     = avgLevel(friendships, tokenOwner'[tokenIds'],
                                memoryNFTs'[tokenIds'].crewMembers)
          /\ \A t \in 1 .. tokenIds :
               /\ (\E s \in Users : UpdateFriendshipLevel(s, t)) =>
                     memoryNFTs'[t].friendshipLevel
                         = avgLevel(friendships, tokenOwner[t], memoryNFTs[t].crewMembers)
               /\ memoryNFTs'[t].friendshipLevel # memoryNFTs[t].friendshipLevel =>
                     \E s \in Users : UpdateFriendshipLevel(s, t)]_vars

\* a token of three crew members, minted at level 2, whose owner has one friend
\* at level 4 and one at level 2, stores their floor average 3
C27_Witness ==
    \E t \in 1 .. tokenIds :
        LET u == tokenOwner[t]
            crew == memoryNFTs[t].crewMembers
        IN  /\ Len(crew) = 3
            /\ {levelIn(friendships, u, c) : c \in Range(crew) \ {u}} = {2, 4}
            /\ memoryNFTs[t].friendshipLevel = 3
            /\ avgLevel(friendships, u, crew) = 3

=========================================================================
